---- MODULE Spec2Model ----
(***************************************************************************)
(* Model of the phone-stream bridge server: the supervisor                 *)
(* (server/bridge.py, OMTBridgeServer), the per-port stream handler        *)
(* (server/handler.py, PhoneStreamHandler) and the host thread that wires  *)
(* both to the host signals (gui/server_thread.py, ServerThread).          *)
(*                                                                         *)
(* The asyncio event loop is single-threaded and cooperative: one action   *)
(* of the model is the code a task runs between two suspension points      *)
(* (await).  Where one piece of code between two awaits is split over      *)
(* several actions, the intermediate positions are "transient": no other   *)
(* task of the loop may step while a task is at a transient position.      *)
(* The host (GUI) thread is a real thread and interleaves freely.          *)
(*                                                                         *)
(* start() keeps ONE PhoneStreamHandler per configured port               *)
(* (bridge.py:138); every connection accepted on that port runs            *)
(* handle_client on that same object, so the handler fields are indexed    *)
(* by phone id and the positions of the running coroutines by connection.  *)
(***************************************************************************)
EXTENDS Integers, Sequences, FiniteSets, TLC

\* ---------------------------------------------------------------- bounds
\* connections the clients open in one run
MaxConns == 2
\* connections the clients open in a run in which the host stops the server
MaxStopConns == 1
\* frames one connection delivers in the main specification
MaxFrames == 1
\* frames one connection delivers in the specification of the timestamps
MaxPtsFrames == 2
\* frames a connection reads where configuration frames arrive in the stream
MaxStreamFrames == 3
\* interfaces of the machine
MaxIfaces == 3
\* bytes of the payload of a frame whose size field is in range
PayloadLen == 100
\* interface checks the monitor makes in the main specification
MaxChecks == 2
\* interface checks the monitor makes in the specification of the monitor
MaxNetChecks == 5

\* cameras the host configures, ServerThread(camera_count): one StreamConfig,
\* handler and listener each
camera_count == 2

\* ------------------------------------------------------ program constants
\* StreamConfig.fps, the default of every stream (server_thread.py:102-104)
config_fps == 30
config_width == 1280
config_height == 720
\* OMTQuality.Low, Medium and High (omt/types.py); OMTOutput creates its
\* senders with Medium
Low == 1
Medium == 50
High == 100
\* StreamConfig.audio_enabled, which ServerThread leaves at its default
config_audio_enabled == FALSE
\* PhoneStreamHandler.connection_timeout and the sleep of its watchdog, the
\* timeouts of the header reads of receive_config and of the streaming
\* loop, in seconds
connection_timeout == 30
watchdog_sleep == 5
config_timeout == 5
header_timeout == 10
\* the bytes of the header the streaming loop reads: readexactly(17)
frame_header == 17
\* monitor_network: max_failures
max_failures == 2

Phones == 1..camera_count
Conns == 1..MaxConns
NoConn == 0

RejectMsg == "ERROR: Port already in use\n"

VARIABLES
    \* --- PhoneStreamHandler fields, one handler per phone id
    running,            \* self.running
    force_stop,         \* self._force_stop
    writer,             \* self.writer: the connection it refers to, or NoConn
    watchdog_task,      \* self.watchdog_task: connection whose watchdog it is
    video_frame_pts,    \* self.video_frame_pts
    current_fps,        \* self.current_fps
    since_last_frame,   \* time.time() - self.last_frame_time, in watchdog sleeps
    current_width,      \* self.current_width
    current_height,     \* self.current_height
    patches,            \* how many patched_config/patched_process_video layers wrap the handler
    \* --- one entry per TCP connection
    port,               \* phone id (port) the client connected to, 0 = not yet opened
    pc,                 \* position of the connection's client_handler_wrapper task
    tr,                 \* server side transport: "open", "closing" (close() was called),
                        \* "closed" (connection_lost ran: the reader is at end of file)
    sent,               \* bytes the server wrote to the client
    wd,                 \* the connection's watchdog task: "none", "alive", "done"
    frames_received,    \* local frames_received of handle_client
    layers,             \* patched_config layers around the receive_config this connection called
    waited,             \* how long the connection's pending read has waited, in watchdog sleeps
    stream_config,      \* the configuration frame the streaming loop read last: what it
                        \* declared and which frame of the connection it was
    config_received,    \* local config_received of handle_client (False before receive_config returns)
    reconfigure_result, \* local success of handle_client: what output.reconfigure returned
                        \* ("none" while it was not called)
    pts_sent,           \* every send_video_frame call made for the connection: pts and result
    \* --- OMTBridgeServer
    port_connections,   \* ports that have a slot in self.port_connections
    active_handlers,    \* keys of self.active_handlers, in insertion order
    connection_lock,    \* connection holding self.connection_lock, or NoConn
    servers,            \* ports whose listener is open
    server_list,        \* len(self.servers)
    outputs_alive,      \* no output.destroy() yet
    current_bind_ip,    \* self.current_bind_ip
    monitor,            \* network monitor task: "sleep", "disconnecting", "cancelled"
    last_status,        \* monitor_network: last_status
    consecutive_failures, \* monitor_network: consecutive_failures
    fd,                 \* the force_disconnect tasks gathered by each owner
    stop_pc,            \* the two runs of OMTBridgeServer.stop()
    stop_idx,           \* servers each run of stop() has closed
    \* --- ServerThread
    thread_running,     \* ServerThread.running
    shutdown_in_progress, \* ServerThread.shutdown_in_progress
    gui,                \* position of the host thread in ServerThread.stop()
    loop,               \* the server thread: "running", "finished", "terminated"
    \* --- what the host has been sent
    events,
    net_events,
    stopped_events,
    \* --- history, read by the properties only
    checks,             \* what every interface check of the monitor found
    served_at_stop,     \* streams being served when the host called stop()
    mark,               \* Disconnects(events[p]) when the host called stop()
    down_active,        \* connections in their handshake or streaming loop when the
                        \* monitor last reported the network down
    bad_size,           \* the connection has read a header whose size is 0 or > 10_000_000
    true_at,            \* where in the events of its stream the True of the connection is, 0 without one
    accepted_in_stop,   \* the connection was accepted after the notifications of a stop() the host asked for
    null_sends,         \* kind and handle state of every omt_send call that was passed a None handle
    sender_handle,      \* the native handle of the sender of each output: "live", "failed" (create_sender gave None), "destroyed" (destroy() set it to None)
    adts_frame,         \* the last result of add_adts_header of each port, << >> before
    aac_channel_config, \* handler.aac_channel_config of each port
    aac_sample_rate_index, \* handler.aac_sample_rate_index of each port
    interfaces,         \* the interfaces netifaces lists, in its order: name and IPv4 address
    bind_ip,            \* self.bind_ip, the address the user specified, "" for None
    audio_yields,       \* audio packets of the connection its decoder gave a frame for
    last_json,          \* the payload of the handshake each connection parsed, << >> without one
    quality_level,      \* the level of the last update_omt_quality call, << >> before the first
    sender_quality,     \* the quality each output has its sender publish with
    battery_percent,    \* handler.battery_percent of each port
    codec_configs,      \* video and audio frames with flags & 0x2 the connection has read
    audio_payloads,     \* audio frames without the codec-config flag the connection has read
    audio_decodes,      \* calls of audio_decoder.decode made for the connection
    audio_sent,         \* calls of output.send_audio_frame made for the connection
    audio_frame_count,  \* handler.audio_frame_count of each port
    audio_enabled,      \* handler.audio_enabled of each port
    config_bytes,       \* bytes of the stream receive_config has consumed
    first_frame,        \* what the connection's receive_config found first: "config", "video" (a frame of another type), "none" (nothing in 5 s); "" before
    error_events,       \* how many error_occurred signals ServerThread.run has sent
    \* --- OMTOutput fields, one output per phone id
    sender_config,      \* << self.current_width, self.current_height, self.current_fps >>
    sender_created,     \* the last create_sender of self.sender returned True
    senders_created,    \* how many OMTSender objects the output has made (1 in __init__)
    video_frame_count   \* self.video_frame_count

vars == << running, force_stop, writer, watchdog_task, video_frame_pts,
           current_fps, patches, port, pc, tr, sent, wd, frames_received, layers,
           pts_sent, port_connections, active_handlers, connection_lock, servers,
           server_list, outputs_alive, current_bind_ip, monitor, last_status,
           consecutive_failures, fd, stop_pc, stop_idx, thread_running,
           shutdown_in_progress, gui, loop, events, net_events, stopped_events,
           checks, served_at_stop, mark, down_active, bad_size, config_received,
           current_width, current_height, reconfigure_result, sender_config,
           sender_created, senders_created, video_frame_count, since_last_frame,
           waited, stream_config,
           error_events,
           first_frame,
           config_bytes,
           audio_enabled,
           audio_frame_count,
           audio_sent,
           audio_decodes,
           audio_payloads,
           codec_configs,
           battery_percent,
           sender_quality,
           quality_level,
           last_json,
           audio_yields,
           bind_ip,
           interfaces,
           aac_sample_rate_index,
           aac_channel_config,
           adts_frame,
           sender_handle,
           null_sends,
           accepted_in_stop,
           true_at >>

\* ---------------------------------------------------------------- events
\* The signals of ServerThread, in the order in which they are emitted:
\* events[p] is what connection_changed and frame_received carried for stream
\* p ("connected" = connection_changed(p, True, info), "disconnected" =
\* connection_changed(p, False, {}), "frame" = frame_received(p, rgb)),
\* net_events the availability flags of network_status_changed, and
\* stopped_events counts server_stopped.
Emit(ev, p, kind, n) == [ev EXCEPT ![p] = @ \o [i \in 1..n |-> kind]]

\* how many connection_changed(p, False, {}) a log holds
Disconnects(log) == Cardinality({i \in 1..Len(log) : log[i] = "disconnected"})

\* The gathers of force_disconnect() coroutines: the monitor's and the one of
\* each run of stop().  st is "none", "sched" (the tasks are created and have
\* not run; on = the handlers) or "wait" (they ran; on = the connections
\* whose wait_closed() they await).
Owners == {"monitor", "stop1", "stop2"}
NoTasks == [st |-> "none", on |-> {}]
StopOwner(i) == IF i = 1 THEN "stop1" ELSE "stop2"

\* the address get_local_ip_addresses() leaves out of its result
Loopback == "127.0.0.1"

\* no configuration frame was read in the streaming loop
NoStreamConfig == [width |-> 0, height |-> 0, fps |-> 0, frame |-> 0]

\* addresses start() may be bound to: one of a LAN interface, all interfaces,
\* or the loopback address the user specified
BindAddresses == {"192.168.1.10", "0.0.0.0", Loopback}

\* ------------------------------------------------------------------ init
\* The fields of the handlers, the outputs, the connections and the thread
\* once ServerThread.run() has built the server and start() has made one
\* output and one handler per config.
InitFields ==
    /\ running = [p \in Phones |-> FALSE]
    /\ force_stop = [p \in Phones |-> FALSE]
    /\ writer = [p \in Phones |-> NoConn]
    /\ watchdog_task = [p \in Phones |-> NoConn]
    /\ video_frame_pts = [p \in Phones |-> 0]
    /\ current_fps = [p \in Phones |-> config_fps]
    /\ since_last_frame = [p \in Phones |-> 0]
    /\ waited = [c \in Conns |-> 0]
    /\ stream_config = [c \in Conns |-> NoStreamConfig]
    /\ current_width = [p \in Phones |-> config_width]
    /\ current_height = [p \in Phones |-> config_height]
    /\ patches = [p \in Phones |-> 0]
    /\ port = [c \in Conns |-> 0]
    /\ pc = [c \in Conns |-> "new"]
    /\ tr = [c \in Conns |-> "open"]
    /\ sent = [c \in Conns |-> ""]
    /\ wd = [c \in Conns |-> "none"]
    /\ frames_received = [c \in Conns |-> 0]
    /\ layers = [c \in Conns |-> 0]
    /\ config_received = [c \in Conns |-> FALSE]
    /\ pts_sent = [c \in Conns |-> << >>]
    /\ port_connections = {}
    /\ active_handlers = << >>
    /\ connection_lock = NoConn
    /\ last_status = TRUE
    /\ consecutive_failures = 0
    /\ fd = [o \in Owners |-> NoTasks]
    /\ stop_pc = [i \in 1..2 |-> "idle"]
    /\ stop_idx = [i \in 1..2 |-> 0]
    /\ outputs_alive = TRUE
    /\ checks = << >>
    /\ served_at_stop = {}
    /\ mark = [p \in Phones |-> 0]
    /\ down_active = {}
    /\ bad_size = [c \in Conns |-> FALSE]
    /\ true_at = [c \in Conns |-> 0]
    /\ accepted_in_stop = [c \in Conns |-> FALSE]
    /\ null_sends = {}
    /\ sender_handle = [p \in Phones |-> "live"]
    /\ adts_frame = [p \in Phones |-> << >>]
    /\ aac_channel_config = [p \in Phones |-> 2]
    /\ aac_sample_rate_index = [p \in Phones |-> 3]
    /\ audio_yields = [c \in Conns |-> 0]
    /\ last_json = [c \in Conns |-> << >>]
    /\ quality_level = << >>
    /\ sender_quality = [p \in Phones |-> Medium]
    /\ battery_percent = [p \in Phones |-> -1]
    /\ codec_configs = [c \in Conns |-> 0]
    /\ audio_payloads = [c \in Conns |-> 0]
    /\ audio_decodes = [c \in Conns |-> 0]
    /\ audio_sent = [c \in Conns |-> 0]
    /\ audio_frame_count = [p \in Phones |-> 0]
    /\ audio_enabled = [p \in Phones |-> config_audio_enabled]
    /\ config_bytes = [c \in Conns |-> 0]
    /\ first_frame = [c \in Conns |-> ""]
    /\ error_events = 0
    /\ reconfigure_result = [c \in Conns |-> "none"]
    /\ sender_config = [p \in Phones |-> << 1280, 720, 30 >>]
    /\ sender_created = [p \in Phones |-> TRUE]
    /\ senders_created = [p \in Phones |-> 1]
    /\ video_frame_count = [p \in Phones |-> 0]
    /\ thread_running = TRUE
    /\ shutdown_in_progress = FALSE
    /\ gui = "idle"
    /\ loop = "running"
    /\ events = [p \in Phones |-> << >>]
    /\ net_events = << >>
    /\ stopped_events = 0

\* The state after start() has also opened one listener per config and
\* created the monitor task.
InitServer ==
    /\ InitFields
    /\ bind_ip = "192.168.1.10"
    /\ interfaces = << >>
    /\ servers = Phones
    /\ server_list = camera_count
    /\ monitor = "sleep"

\* start() has made the outputs and the handlers and is about to open the
\* listeners; the monitor task does not exist yet
InitBind ==
    /\ InitFields
    /\ bind_ip = "192.168.1.10"
    /\ interfaces = << >>
    /\ servers = {}
    /\ server_list = 0
    /\ monitor = "unstarted"
    /\ current_bind_ip = "192.168.1.10"

\* an interface name, one character per element
Ethernet == << "E", "t", "h", "e", "r", "n", "e", "t" >>
WiFi == << "W", "i", "-", "F", "i" >>
wlan0 == << "w", "l", "a", "n", "0" >>
eth0 == << "e", "t", "h", "0" >>
en0 == << "e", "n", "0" >>
tun0 == << "t", "u", "n", "0" >>
lo == << "l", "o" >>
InterfaceNames == {Ethernet, WiFi, wlan0, eth0, en0, tun0, lo}

\* the IPv4 address of the i-th interface listed; lo has the loopback address
AddressOf(name, i) ==
    IF name = lo THEN Loopback
    ELSE << "192.168.1.10", "10.0.0.2", "172.16.0.3", "192.168.1.11" >>[i]

\* the lists of at most MaxIfaces interfaces
InterfaceLists ==
    UNION {[1..n -> InterfaceNames] : n \in 0..MaxIfaces}

\* what the user may have specified as bind address: nothing or an address
UserBindIps == {"", "10.0.0.5"}

\* start() is entered: no address is resolved yet and nothing is listening
InitResolve ==
    /\ InitFields
    /\ servers = {}
    /\ server_list = 0
    /\ monitor = "unstarted"
    /\ current_bind_ip = ""
    /\ \E names \in InterfaceLists, ip \in UserBindIps :
           /\ bind_ip = ip
           /\ interfaces = [i \in 1..Len(names) |->
                               [interface |-> names[i], ip |-> AddressOf(names[i], i)]]

\* the server bound to the address of a LAN interface
Init ==
    /\ InitServer
    /\ current_bind_ip = "192.168.1.10"

\* the server bound to any of the addresses
InitNet ==
    /\ InitServer
    /\ current_bind_ip \in BindAddresses

\* ------------------------------------------------------------ scheduling
\* Positions inside a stretch of code that has no await: the task keeps the
\* event loop until it reaches the next await.
Transient == {"finally", "close", "finish"}
Busy == \E d \in Conns : pc[d] \in Transient
\* a task of the event loop may take a step from a suspension point
LoopFree == loop = "running" /\ ~Busy
\* task c continues its own transient stretch
LoopMine(c) == loop = "running" /\ pc[c] \in Transient

\* positions at which a handle_client invocation has been entered and has not returned
Serving == {"cfg", "hdr", "finally", "fin_wd", "close", "fin_close", "finish"}

Remove(seq, x) == SelectSeq(seq, LAMBDA y : y # x)
InSeq(seq, x) == \E i \in 1..Len(seq) : seq[i] = x
Range(seq) == {seq[i] : i \in 1..Len(seq)}

\* PhoneStreamHandler.__init__: self.pts_increment = 90000 // config.fps.
\* No other statement assigns pts_increment.
pts_increment == 90000 \div config_fps

\* ----------------------------------------------------- client connections
\* A client completes a TCP connection to an open listener; asyncio creates
\* the client_handler_wrapper task for it.  Connections are numbered in the
\* order in which they are opened.
Connect(c, p) ==
    /\ LoopFree
    /\ pc[c] = "new"
    /\ IF c = 1 THEN TRUE ELSE pc[c - 1] # "new"
    /\ p \in servers
    /\ pc' = [pc EXCEPT ![c] = "accepted"]
    /\ port' = [port EXCEPT ![c] = p]
    /\ accepted_in_stop' = [accepted_in_stop EXCEPT
                               ![c] = stop_pc[1] \notin {"idle", "notify"}]
    /\ UNCHANGED << running, force_stop, writer, watchdog_task, video_frame_pts,
                    current_fps, patches, tr, sent, wd, frames_received, layers, pts_sent,
                    port_connections, active_handlers, connection_lock, servers,
                    server_list, outputs_alive, current_bind_ip, monitor, last_status,
                    consecutive_failures, fd, stop_pc, stop_idx, thread_running,
                    shutdown_in_progress, gui, loop, events, net_events, stopped_events,
                    checks, served_at_stop, mark, down_active, bad_size, config_received,
                    current_width, current_height, reconfigure_result, sender_config,
                    sender_created, senders_created, video_frame_count, since_last_frame,
                    waited, stream_config, error_events, first_frame, config_bytes,
                    audio_enabled, audio_frame_count, audio_sent, audio_decodes,
                    audio_payloads, codec_configs, battery_percent, sender_quality,
                    quality_level, last_json, audio_yields, bind_ip, interfaces,
                    aac_sample_rate_index, aac_channel_config, adts_frame, sender_handle,
                    null_sends, true_at >>

\* a wrapper that makes no port check
NeverInUse(p) == FALSE

\* the port check of client_handler_wrapper: the slot exists and its handler runs
PortInUse(p) == p \in port_connections /\ running[p]

\* client_handler_wrapper, the rejection: the message is written, the
\* connection closed and wait_closed() awaited with connection_lock held
Reject(c) ==
    /\ sent' = [sent EXCEPT ![c] = RejectMsg]
    /\ tr' = [tr EXCEPT ![c] = "closing"]
    /\ connection_lock' = c
    /\ pc' = [pc EXCEPT ![c] = "rejecting"]
    /\ UNCHANGED << running, force_stop, writer, watchdog_task, patches, wd, layers,
                    port_connections, active_handlers, events, since_last_frame,
                    waited, true_at >>

\* client_handler_wrapper, the registration (slot and active_handlers), then
\* patched_handle (initial signal, one more layer of patches) and
\* handle_client up to the await of the configuration header
Serve(c) ==
    LET p == port[c] IN
    /\ port_connections' = port_connections \cup {p}
    /\ active_handlers' = IF InSeq(active_handlers, p) THEN active_handlers
                          ELSE Append(active_handlers, p)
    /\ events' = Emit(events, p, "connected", 1)
    /\ true_at' = [true_at EXCEPT ![c] = Len(events[p]) + 1]
    /\ patches' = [patches EXCEPT ![p] = @ + 1]
    /\ layers' = [layers EXCEPT ![c] = patches[p] + 1]
    /\ writer' = [writer EXCEPT ![p] = c]
    /\ force_stop' = [force_stop EXCEPT ![p] = FALSE]
    /\ running' = [running EXCEPT ![p] = TRUE]
    /\ since_last_frame' = [since_last_frame EXCEPT ![p] = 0]
    /\ waited' = [waited EXCEPT ![c] = 0]
    /\ wd' = [wd EXCEPT ![c] = "alive"]
    /\ watchdog_task' = [watchdog_task EXCEPT ![p] = c]
    /\ pc' = [pc EXCEPT ![c] = "cfg"]
    /\ UNCHANGED << sent, tr, connection_lock >>

\* client_handler_wrapper up to its first await: the check under connection_lock
WrapperStart(c) ==
    /\ LoopFree
    /\ pc[c] = "accepted"
    /\ connection_lock = NoConn
    /\ IF PortInUse(port[c]) THEN Reject(c) ELSE Serve(c)
    /\ UNCHANGED << video_frame_pts, current_fps, port, frames_received, pts_sent, servers,
                    server_list, outputs_alive, current_bind_ip, monitor, last_status,
                    consecutive_failures, fd, stop_pc, stop_idx, thread_running,
                    shutdown_in_progress, gui, loop, net_events, stopped_events, checks,
                    served_at_stop, mark, down_active, bad_size, config_received,
                    current_width, current_height, reconfigure_result, sender_config,
                    sender_created, senders_created, video_frame_count, stream_config,
                    error_events, first_frame, config_bytes, audio_enabled,
                    audio_frame_count, audio_sent, audio_decodes, audio_payloads,
                    codec_configs, battery_percent, sender_quality, quality_level,
                    last_json, audio_yields, bind_ip, interfaces, aac_sample_rate_index,
                    aac_channel_config, adts_frame, sender_handle, null_sends,
                    accepted_in_stop >>

\* the rejected client's transport is gone: the wrapper leaves the lock and returns
RejectDone(c) ==
    /\ LoopFree
    /\ pc[c] = "rejecting"
    /\ tr[c] = "closed"
    /\ connection_lock' = NoConn
    /\ pc' = [pc EXCEPT ![c] = "done"]
    /\ UNCHANGED << running, force_stop, writer, watchdog_task, video_frame_pts,
                    current_fps, patches, port, tr, sent, wd, frames_received, layers,
                    pts_sent, port_connections, active_handlers, servers, server_list,
                    outputs_alive, current_bind_ip, monitor, last_status,
                    consecutive_failures, fd, stop_pc, stop_idx, thread_running,
                    shutdown_in_progress, gui, loop, events, net_events, stopped_events,
                    checks, served_at_stop, mark, down_active, bad_size, config_received,
                    current_width, current_height, reconfigure_result, sender_config,
                    sender_created, senders_created, video_frame_count, since_last_frame,
                    waited, stream_config, error_events, first_frame, config_bytes,
                    audio_enabled, audio_frame_count, audio_sent, audio_decodes,
                    audio_payloads, codec_configs, battery_percent, sender_quality,
                    quality_level, last_json, audio_yields, bind_ip, interfaces,
                    aac_sample_rate_index, aac_channel_config, adts_frame, sender_handle,
                    null_sends, accepted_in_stop, true_at >>

\* connection_lost of a transport on which close() was called: the reader is
\* fed end of file and wait_closed() returns
ConnectionLost(c) ==
    /\ LoopFree
    /\ tr[c] = "closing"
    /\ tr' = [tr EXCEPT ![c] = "closed"]
    /\ UNCHANGED << running, force_stop, writer, watchdog_task, video_frame_pts,
                    current_fps, patches, port, pc, sent, wd, frames_received, layers,
                    pts_sent, port_connections, active_handlers, connection_lock, servers,
                    server_list, outputs_alive, current_bind_ip, monitor, last_status,
                    consecutive_failures, fd, stop_pc, stop_idx, thread_running,
                    shutdown_in_progress, gui, loop, events, net_events, stopped_events,
                    checks, served_at_stop, mark, down_active, bad_size, config_received,
                    current_width, current_height, reconfigure_result, sender_config,
                    sender_created, senders_created, video_frame_count, since_last_frame,
                    waited, stream_config, error_events, first_frame, config_bytes,
                    audio_enabled, audio_frame_count, audio_sent, audio_decodes,
                    audio_payloads, codec_configs, battery_percent, sender_quality,
                    quality_level, last_json, audio_yields, bind_ip, interfaces,
                    aac_sample_rate_index, aac_channel_config, adts_frame, sender_handle,
                    null_sends, accepted_in_stop, true_at >>

\* `while self.running and not self._force_stop` followed by the await of the
\* next header, or the way into the finally block
LoopTop(p) == IF running[p] /\ ~force_stop[p] THEN "hdr" ELSE "finally"

\* the top of the streaming loop when it is entered: last_frame_time is
\* set and the read of the next header begins
NextRead(c) ==
    LET p == port[c] IN
    /\ since_last_frame' = IF LoopTop(p) = "hdr"
                           THEN [since_last_frame EXCEPT ![p] = 0]
                           ELSE since_last_frame
    /\ waited' = [waited EXCEPT ![c] = 0]

\* OMTOutput.reconfigure without its early return: the sender is destroyed
\* and made again on every call
ReconfigureAlways(c, w, h, fps, created) ==
    LET p == port[c] IN
    /\ senders_created' = [senders_created EXCEPT ![p] = @ + 1]
    /\ sender_created' = [sender_created EXCEPT ![p] = created]
    /\ sender_handle' = [sender_handle EXCEPT ![p] = IF created THEN "live" ELSE "failed"]
    /\ sender_config' = IF created THEN [sender_config EXCEPT ![p] = << w, h, fps >>]
                        ELSE sender_config
    /\ video_frame_count' = IF created THEN [video_frame_count EXCEPT ![p] = 0]
                            ELSE video_frame_count
    /\ sender_quality' = IF created THEN [sender_quality EXCEPT ![p] = Medium]
                         ELSE sender_quality
    /\ reconfigure_result' = [reconfigure_result EXCEPT
                                ![c] = IF created THEN "True" ELSE "False"]

\* OMTOutput.reconfigure(width, height, fps), called by the handler of
\* connection c on the output of its port.  The same tuple as the recorded
\* one returns True at once.  Otherwise the sender is destroyed and a new
\* OMTSender made; created is what its create_sender returns: False returns
\* False before the recorded tuple and the counters are touched.  The new
\* sender is created with OMTQuality.Medium.
Reconfigure(c, w, h, fps, created) ==
    LET p == port[c]
        same == sender_config[p] = << w, h, fps >>
    IN
    /\ senders_created' = IF same THEN senders_created
                          ELSE [senders_created EXCEPT ![p] = @ + 1]
    /\ sender_created' = IF same THEN sender_created
                         ELSE [sender_created EXCEPT ![p] = created]
    /\ sender_handle' = IF same THEN sender_handle
                        ELSE [sender_handle EXCEPT
                                ![p] = IF created THEN "live" ELSE "failed"]
    /\ sender_config' = IF same \/ ~created THEN sender_config
                        ELSE [sender_config EXCEPT ![p] = << w, h, fps >>]
    /\ video_frame_count' = IF same \/ ~created THEN video_frame_count
                            ELSE [video_frame_count EXCEPT ![p] = 0]
    /\ sender_quality' = IF same \/ ~created THEN sender_quality
                         ELSE [sender_quality EXCEPT ![p] = Medium]
    /\ reconfigure_result' = [reconfigure_result EXCEPT
                                ![c] = IF same \/ created THEN "True" ELSE "False"]

\* the number of payload bytes a size field stands for
SizeOf(size) ==
    IF size = "zero" THEN 0 ELSE IF size = "valid" THEN PayloadLen ELSE 10000001

\* What receive_config takes from the stream: readexactly(5) for the type
\* and the size, then readexactly(size) for the payload.  A readexactly
\* that times out takes nothing.
ConfigBytes(ok, size, first) ==
    IF first = "none" THEN 0
    ELSE IF first # "config" \/ (size = "huge" /\ ~ok) THEN 5
    ELSE 5 + SizeOf(size)

\* dict.get(key, default) on a JSON object holding the keys in present
Get(present, key, value, default) == IF key \in present THEN value ELSE default

\* receive_config returns (both of its reads): with ok the configuration
\* frame was read and parsed, otherwise it timed out, had another type, did
\* not parse or hit end of file.  Every patched_config layer then sends the
\* info signal, and handle_client goes on to the streaming loop.  Bytes that
\* arrived before close() was called on the transport are still read.
\* size is the size field of the 5-byte header: receive_config passes it to
\* readexactly() as it is; a payload of no bytes does not parse.
\* shape and fps are the video width, height and fps of the configuration;
\* with ok handle_client passes them to the output's reconfigure.
\* first is what the first read found: a header of type FRAME_TYPE_CONFIG,
\* a header of another type (receive_config returns False without reading
\* on), or nothing.  json tells which of the video keys width, height and
\* fps the payload holds (shape and fps are their values), its
\* audio.enabled ("absent", "true" or "false"), its device.batteryPercent
\* (<< >> when absent) and whether its video.bitrate is a number or a string:
\* with a string the division in the log line after the assignments raises
\* TypeError, which `except Exception` turns into False.
ReceiveConfig(c, ok, fps, size, shape, created, first, json) ==
    LET p == port[c]
        width == Get(json.present, "width", shape[1], config_width)
        height == Get(json.present, "height", shape[2], config_height)
        rate == Get(json.present, "fps", fps, config_fps)
        returns == ok /\ json.bitrate = "number"
    IN
    /\ LoopFree
    /\ pc[c] = "cfg"
    /\ ok => tr[c] # "closed" /\ size # "zero" /\ first = "config"
    /\ first_frame' = [first_frame EXCEPT ![c] = first]
    /\ config_bytes' = [config_bytes EXCEPT ![c] = ConfigBytes(ok, size, first)]
    /\ bad_size' = [bad_size EXCEPT ![c] = size # "valid"]
    /\ config_received' = [config_received EXCEPT ![c] = returns]
    /\ current_fps' = IF ok THEN [current_fps EXCEPT ![p] = rate] ELSE current_fps
    /\ current_width' = IF ok THEN [current_width EXCEPT ![p] = width]
                        ELSE current_width
    /\ current_height' = IF ok THEN [current_height EXCEPT ![p] = height]
                         ELSE current_height
    /\ audio_enabled' = IF ok
                        THEN [audio_enabled EXCEPT
                                ![p] = Get(IF json.audio = "absent" THEN {}
                                           ELSE {"enabled"},
                                           "enabled", json.audio = "true", TRUE)]
                        ELSE audio_enabled
    /\ last_json' = IF ok THEN [last_json EXCEPT ![c] = << json >>] ELSE last_json
    /\ battery_percent' = IF ok
                          THEN [battery_percent EXCEPT
                                  ![p] = IF json.battery = << >> THEN -1
                                         ELSE json.battery[1]]
                          ELSE battery_percent
    /\ IF returns THEN Reconfigure(c, width, height, rate, created)
       ELSE UNCHANGED << sender_config, sender_created, senders_created, sender_handle,
                         video_frame_count, reconfigure_result, sender_quality >>
    /\ events' = IF returns THEN Emit(events, p, "connected", layers[c]) ELSE events
    /\ NextRead(c)
    /\ pc' = [pc EXCEPT ![c] = LoopTop(p)]
    /\ UNCHANGED << running, force_stop, writer, watchdog_task, video_frame_pts, patches,
                    port, tr, sent, wd, frames_received, layers, pts_sent,
                    port_connections, active_handlers, connection_lock, servers,
                    server_list, outputs_alive, current_bind_ip, monitor, last_status,
                    consecutive_failures, fd, stop_pc, stop_idx, thread_running,
                    shutdown_in_progress, gui, loop, net_events, stopped_events, checks,
                    served_at_stop, mark, down_active, stream_config, error_events,
                    audio_frame_count, audio_sent, audio_decodes, audio_payloads,
                    codec_configs, quality_level, audio_yields, bind_ip, interfaces,
                    aac_sample_rate_index, aac_channel_config, adts_frame, null_sends,
                    accepted_in_stop, true_at >>

\* frame_to_nv12 takes the size of the UV part from the stream's
\* StreamConfig, whatever the size of the decoded picture
uv_size == (config_width * config_height) \div 2

\* uv_data[0::2] = u_plane.flatten(): numpy raises ValueError unless the U
\* plane of the fw x fh picture fills every second byte of the UV part
Converts(fw, fh) == (fw \div 2) * (fh \div 2) = uv_size \div 2

\* len(frame_to_nv12(frame)) for a decoded picture of fw x fh pixels: its Y
\* plane followed by the UV part
frame_to_nv12(fw, fh) == fw * fh + uv_size

\* nv12_to_rgb(nv12_data, width, height): the two reshapes succeed when the
\* buffer holds a Y plane of width x height and a UV plane of half its size
ToRgb(len, width, height) == len = width * height + (height \div 2) * width

\* ------------------------------------------------------------------- ADTS
\* x >> n, x << n, x & (2^n - 1) and x | y on non-negative integers
Shr(x, n) == x \div (2 ^ n)
Shl(x, n) == x * (2 ^ n)
Mask(x, n) == x % (2 ^ n)
RECURSIVE Or(_, _)
Or(x, y) ==
    IF x = 0 THEN y
    ELSE IF y = 0 THEN x
    ELSE (IF x % 2 = 1 \/ y % 2 = 1 THEN 1 ELSE 0) + 2 * Or(x \div 2, y \div 2)

\* process_audio_frame on a codec configuration of at least two bytes: the
\* AudioSpecificConfig's sampling frequency index and channel configuration
ParseSampleRateIndex(data0, data1) == Or(Shl(Mask(data0, 3), 1), Mask(Shr(data1, 7), 1))
ParseChannelConfig(data1) == Mask(Shr(data1, 3), 4)

\* the seven bytes add_adts_header puts before a payload of length bytes
adts_header(sample_rate_index, channel_config, length) ==
    LET frame_length == length + 7 IN
    << 255, 241,
       Or(Or(Shl(1, 6), Shl(sample_rate_index, 2)), Shr(channel_config, 2)),
       Or(Shl(Mask(channel_config, 2), 6), Mask(Shr(frame_length, 11), 2)),
       Mask(Shr(frame_length, 3), 8),
       Or(Shl(Mask(frame_length, 3), 5), 31),
       252 >>

\* process_audio_frame records the AAC parameters of a codec configuration
\* whose first bytes are data0 and data1
AudioCodecConfig(p, data0, data1) ==
    /\ aac_sample_rate_index' =
           [aac_sample_rate_index EXCEPT ![p] = ParseSampleRateIndex(data0, data1)]
    /\ aac_channel_config' = [aac_channel_config EXCEPT ![p] = ParseChannelConfig(data1)]
    /\ UNCHANGED << running, force_stop, writer, watchdog_task, video_frame_pts,
                    current_fps, patches, port, pc, tr, sent, wd, frames_received, layers,
                    pts_sent, port_connections, active_handlers, connection_lock, servers,
                    server_list, outputs_alive, current_bind_ip, monitor, last_status,
                    consecutive_failures, fd, stop_pc, stop_idx, thread_running,
                    shutdown_in_progress, gui, loop, events, net_events, stopped_events,
                    checks, served_at_stop, mark, down_active, bad_size, config_received,
                    current_width, current_height, reconfigure_result, sender_config,
                    sender_created, senders_created, video_frame_count, since_last_frame,
                    waited, stream_config, error_events, first_frame, config_bytes,
                    audio_enabled, audio_frame_count, audio_sent, audio_decodes,
                    audio_payloads, codec_configs, battery_percent, sender_quality,
                    quality_level, last_json, audio_yields, bind_ip, interfaces,
                    adts_frame, sender_handle, null_sends, accepted_in_stop, true_at >>

\* add_adts_header(aac_frame) for a payload of length bytes: bytes(adts) +
\* aac_frame, the payload following the header as it is; the result is
\* kept with the AAC parameters the handler had recorded
AddAdtsHeader(p, length) ==
    /\ adts_frame' =
           [adts_frame EXCEPT
              ![p] = << [header |-> adts_header(aac_sample_rate_index[p],
                                                aac_channel_config[p], length),
                         payload |-> length,
                         sample_rate_index |-> aac_sample_rate_index[p],
                         channel_config |-> aac_channel_config[p]] >>]
    /\ UNCHANGED << running, force_stop, writer, watchdog_task, video_frame_pts,
                    current_fps, patches, port, pc, tr, sent, wd, frames_received, layers,
                    pts_sent, port_connections, active_handlers, connection_lock, servers,
                    server_list, outputs_alive, current_bind_ip, monitor, last_status,
                    consecutive_failures, fd, stop_pc, stop_idx, thread_running,
                    shutdown_in_progress, gui, loop, events, net_events, stopped_events,
                    checks, served_at_stop, mark, down_active, bad_size, config_received,
                    current_width, current_height, reconfigure_result, sender_config,
                    sender_created, senders_created, video_frame_count, since_last_frame,
                    waited, stream_config, error_events, first_frame, config_bytes,
                    audio_enabled, audio_frame_count, audio_sent, audio_decodes,
                    audio_payloads, codec_configs, battery_percent, sender_quality,
                    quality_level, last_json, audio_yields, bind_ip, interfaces,
                    aac_sample_rate_index, aac_channel_config, sender_handle, null_sends,
                    accepted_in_stop, true_at >>

\* the first two bytes of an AudioSpecificConfig of AAC LC (object type 2)
\* and the lengths of audio payloads, the longest an ADTS frame can hold
\* among them
ConfigByte0 == {17, 22}
ConfigByte1 == {8 * k : k \in 0..31}
PayloadLengths == {0, 1, 7, 8, 9, 255, 256, 2041, 2042, 8184}

\* One iteration of the streaming loop whose header and payload were read.
\* kind "video" and "audio" are packets without the codec-config flag,
\* "video_config" and "audio_config" packets with flags & 0x2, "metadata" a
\* non-empty metadata frame of type 'misc' and "other" any frame no branch
\* of the dispatch takes.  The audio branch is taken when audio_enabled.
\* decoded: the decoder returned a frame (a picture of shape[1] x shape[2]
\* pixels for video); a decoder error and an empty result both return
\* False, and a picture frame_to_nv12 cannot convert ends
\* process_video_frame in its except branch.  success: the result of
\* send_video_frame or send_audio_frame, False once the outputs are
\* destroyed or when the output has no sender.  Every
\* patched_process_video layer sends the preview frame if nv12_to_rgb
\* accepts the buffer.  FrameEffects is everything the iteration does but
\* the step back to the top of the loop.
BatteryLevels == {20, 80}

\* process_video_frame with a codec configuration going on to the decoded
\* frames like every packet
SendsVideoConfig(kind, decoded, shape) ==
    kind \in {"video", "video_config"} /\ decoded /\ Converts(shape[1], shape[2])

\* process_video_frame calls send_video_frame: the packet has no
\* codec-config flag, the decoder gave a picture and frame_to_nv12
\* converted it
SendsVideo(kind, decoded, shape) ==
    kind = "video" /\ decoded /\ Converts(shape[1], shape[2])

\* the dispatch calls process_audio_frame, which feeds the audio decoder
DecodesAudio(p, kind) == kind \in {"audio", "audio_config"} /\ audio_enabled[p]

\* the audio branch of the dispatch without its audio_enabled condition
SendsAudioAlways(p, kind, decoded) == kind = "audio" /\ decoded

\* process_audio_frame calls send_audio_frame, once, with frames[0]: the
\* dispatch took the audio branch, the packet has no codec-config flag and
\* the decoder gave a frame
SendsAudio(p, kind, decoded) == kind = "audio" /\ audio_enabled[p] /\ decoded

\* OMTOutput.send_audio_frame hands self.sender.sender to omt_send whatever
\* it is; OMTSender.send_video_frame returns False before the call when the
\* handle is None.  plays: send_audio_frame is called for the frame.  What
\* omt_send does with a None handle is not defined: its result is any.
NullSend(p, plays) == plays /\ sender_handle[p] # "live"

FrameEffects(c, kind, decoded, success, shape) ==
    LET p == port[c]
        sends == SendsVideo(kind, decoded, shape)
        nv12 == frame_to_nv12(shape[1], shape[2])
        shown == /\ sends
                 /\ thread_running
                 /\ ToRgb(nv12, current_width[p], current_height[p])
        hears == DecodesAudio(p, kind)
        plays == SendsAudio(p, kind, decoded)
    IN
    /\ success => \/ outputs_alive /\ sender_created[p]
                  \/ NullSend(p, plays)
    /\ null_sends' = IF NullSend(p, plays)
                     THEN null_sends \cup {<< kind, sender_handle[p] >>}
                     ELSE null_sends
    /\ pts_sent' = IF sends
                   THEN [pts_sent EXCEPT
                           ![c] = Append(@, [pts |-> video_frame_pts[p], ok |-> success,
                                             len |-> nv12,
                                             width |-> current_width[p],
                                             height |-> current_height[p]])]
                   ELSE pts_sent
    /\ video_frame_pts' = IF sends /\ success
                          THEN [video_frame_pts EXCEPT ![p] = @ + pts_increment]
                          ELSE video_frame_pts
    /\ video_frame_count' = IF sends /\ success
                            THEN [video_frame_count EXCEPT ![p] = @ + 1]
                            ELSE video_frame_count
    /\ events' = IF shown THEN Emit(events, p, "frame", patches[p]) ELSE events
    /\ codec_configs' = IF kind \in {"video_config", "audio_config"}
                        THEN [codec_configs EXCEPT ![c] = @ + 1]
                        ELSE codec_configs
    /\ audio_payloads' = IF kind = "audio"
                         THEN [audio_payloads EXCEPT ![c] = @ + 1]
                         ELSE audio_payloads
    /\ audio_decodes' = IF hears
                        THEN [audio_decodes EXCEPT ![c] = @ + 1]
                        ELSE audio_decodes
    /\ audio_yields' = IF hears /\ kind = "audio" /\ decoded
                       THEN [audio_yields EXCEPT ![c] = @ + 1]
                       ELSE audio_yields
    /\ audio_sent' = IF plays
                     THEN [audio_sent EXCEPT ![c] = @ + 1]
                     ELSE audio_sent
    /\ audio_frame_count' = IF plays /\ success
                            THEN [audio_frame_count EXCEPT ![p] = @ + 1]
                            ELSE audio_frame_count
    /\ \E level \in BatteryLevels :
           battery_percent' = IF kind = "metadata"
                              THEN [battery_percent EXCEPT ![p] = level]
                              ELSE battery_percent

\* the iteration with a failure that ends the loop: a packet that gave no
\* frame and a publish that returned False break out of it
ReadFrameFatal(c, limit, kind, decoded, success, shape) ==
    LET p == port[c]
        dropped == kind \in {"video", "audio"} /\ ~(decoded /\ success)
    IN
    /\ LoopFree
    /\ pc[c] = "hdr"
    /\ tr[c] # "closed"
    /\ frames_received[c] < limit
    /\ frames_received' = [frames_received EXCEPT ![c] = @ + 1]
    /\ FrameEffects(c, kind, decoded, success, shape)
    /\ NextRead(c)
    /\ pc' = [pc EXCEPT ![c] = IF dropped THEN "finally" ELSE LoopTop(p)]
    /\ UNCHANGED << running, force_stop, writer, watchdog_task, current_fps, patches, port,
                    tr, sent, wd, layers, port_connections, active_handlers,
                    connection_lock, servers, server_list, outputs_alive, current_bind_ip,
                    monitor, last_status, consecutive_failures, fd, stop_pc, stop_idx,
                    thread_running, shutdown_in_progress, gui, loop, net_events,
                    stopped_events, checks, served_at_stop, mark, down_active, bad_size,
                    config_received, current_width, current_height, reconfigure_result,
                    sender_config, sender_created, senders_created, stream_config,
                    error_events, first_frame, config_bytes, audio_enabled, sender_quality,
                    quality_level, last_json, bind_ip, interfaces, aac_sample_rate_index,
                    aac_channel_config, adts_frame, sender_handle, accepted_in_stop,
                    true_at >>

ReadFrame(c, limit, kind, decoded, success, shape) ==
    LET p == port[c] IN
    /\ LoopFree
    /\ pc[c] = "hdr"
    /\ tr[c] # "closed"
    /\ frames_received[c] < limit
    /\ frames_received' = [frames_received EXCEPT ![c] = @ + 1]
    /\ FrameEffects(c, kind, decoded, success, shape)
    /\ NextRead(c)
    /\ pc' = [pc EXCEPT ![c] = LoopTop(p)]
    /\ UNCHANGED << running, force_stop, writer, watchdog_task, current_fps, patches, port,
                    tr, sent, wd, layers, port_connections, active_handlers,
                    connection_lock, servers, server_list, outputs_alive, current_bind_ip,
                    monitor, last_status, consecutive_failures, fd, stop_pc, stop_idx,
                    thread_running, shutdown_in_progress, gui, loop, net_events,
                    stopped_events, checks, served_at_stop, mark, down_active, bad_size,
                    config_received, current_width, current_height, reconfigure_result,
                    sender_config, sender_created, senders_created, stream_config,
                    error_events, first_frame, config_bytes, audio_enabled, sender_quality,
                    quality_level, last_json, bind_ip, interfaces, aac_sample_rate_index,
                    aac_channel_config, adts_frame, sender_handle, accepted_in_stop,
                    true_at >>

\* the iteration for a configuration frame with a branch of the dispatch
\* that takes the frame's width, height and fps as the current ones
ReadConfigFrameAdopts(c, limit, fps, shape) ==
    LET p == port[c] IN
    /\ LoopFree
    /\ pc[c] = "hdr"
    /\ tr[c] # "closed"
    /\ frames_received[c] < limit
    /\ frames_received' = [frames_received EXCEPT ![c] = @ + 1]
    /\ stream_config' = [stream_config EXCEPT
                           ![c] = [width |-> shape[1], height |-> shape[2],
                                   fps |-> fps, frame |-> frames_received[c] + 1]]
    /\ current_width' = [current_width EXCEPT ![p] = shape[1]]
    /\ current_height' = [current_height EXCEPT ![p] = shape[2]]
    /\ current_fps' = [current_fps EXCEPT ![p] = fps]
    /\ NextRead(c)
    /\ pc' = [pc EXCEPT ![c] = LoopTop(p)]
    /\ UNCHANGED << running, force_stop, writer, watchdog_task, video_frame_pts, patches,
                    port, tr, sent, wd, layers, pts_sent, port_connections,
                    active_handlers, connection_lock, servers, server_list, outputs_alive,
                    current_bind_ip, monitor, last_status, consecutive_failures, fd,
                    stop_pc, stop_idx, thread_running, shutdown_in_progress, gui, loop,
                    events, net_events, stopped_events, checks, served_at_stop, mark,
                    down_active, bad_size, config_received, reconfigure_result,
                    sender_config, sender_created, senders_created, video_frame_count,
                    error_events, first_frame, config_bytes, audio_enabled,
                    audio_frame_count, audio_sent, audio_decodes, audio_payloads,
                    codec_configs, battery_percent, sender_quality, quality_level,
                    last_json, audio_yields, bind_ip, interfaces, aac_sample_rate_index,
                    aac_channel_config, adts_frame, sender_handle, null_sends,
                    accepted_in_stop, true_at >>

\* One iteration of the streaming loop that read a frame of type
\* FRAME_TYPE_CONFIG declaring shape and fps: the dispatch has a branch for
\* video, audio and metadata frames only, so the frame is counted and
\* nothing else is done with it.
ReadConfigFrame(c, limit, fps, shape) ==
    LET p == port[c] IN
    /\ LoopFree
    /\ pc[c] = "hdr"
    /\ tr[c] # "closed"
    /\ frames_received[c] < limit
    /\ frames_received' = [frames_received EXCEPT ![c] = @ + 1]
    /\ stream_config' = [stream_config EXCEPT
                           ![c] = [width |-> shape[1], height |-> shape[2],
                                   fps |-> fps, frame |-> frames_received[c] + 1]]
    /\ NextRead(c)
    /\ pc' = [pc EXCEPT ![c] = LoopTop(p)]
    /\ UNCHANGED << running, force_stop, writer, watchdog_task, video_frame_pts,
                    current_fps, patches, port, tr, sent, wd, layers, pts_sent,
                    port_connections, active_handlers, connection_lock, servers,
                    server_list, outputs_alive, current_bind_ip, monitor, last_status,
                    consecutive_failures, fd, stop_pc, stop_idx, thread_running,
                    shutdown_in_progress, gui, loop, events, net_events, stopped_events,
                    checks, served_at_stop, mark, down_active, bad_size, config_received,
                    current_width, current_height, reconfigure_result, sender_config,
                    sender_created, senders_created, video_frame_count, error_events,
                    first_frame, config_bytes, audio_enabled, audio_frame_count,
                    audio_sent, audio_decodes, audio_payloads, codec_configs,
                    battery_percent, sender_quality, quality_level, last_json,
                    audio_yields, bind_ip, interfaces, aac_sample_rate_index,
                    aac_channel_config, adts_frame, sender_handle, null_sends,
                    accepted_in_stop, true_at >>

\* A header or payload read ends the loop: end of file (the client closed or
\* the transport was closed), the 10 s or 5 s timeout, an invalid size or any
\* other read error (all of them `break`).  size is the size field when a
\* header was read: "zero" and "huge" fail the sanity check.
ReadFail(c, size) ==
    /\ LoopFree
    /\ pc[c] = "hdr"
    /\ bad_size' = [bad_size EXCEPT ![c] = @ \/ size # "valid"]
    /\ pc' = [pc EXCEPT ![c] = "finally"]
    /\ UNCHANGED << running, force_stop, writer, watchdog_task, video_frame_pts,
                    current_fps, patches, port, tr, sent, wd, frames_received, layers,
                    pts_sent, port_connections, active_handlers, connection_lock, servers,
                    server_list, outputs_alive, current_bind_ip, monitor, last_status,
                    consecutive_failures, fd, stop_pc, stop_idx, thread_running,
                    shutdown_in_progress, gui, loop, events, net_events, stopped_events,
                    checks, served_at_stop, mark, down_active, config_received,
                    current_width, current_height, reconfigure_result, sender_config,
                    sender_created, senders_created, video_frame_count, since_last_frame,
                    waited, stream_config, error_events, first_frame, config_bytes,
                    audio_enabled, audio_frame_count, audio_sent, audio_decodes,
                    audio_payloads, codec_configs, battery_percent, sender_quality,
                    quality_level, last_json, audio_yields, bind_ip, interfaces,
                    aac_sample_rate_index, aac_channel_config, adts_frame, sender_handle,
                    null_sends, accepted_in_stop, true_at >>

\* The header read of the streaming loop ends in asyncio.TimeoutError once
\* it has waited 10 s.
ReadTimeout(c) ==
    /\ waited[c] * watchdog_sleep >= header_timeout
    /\ ReadFail(c, "valid")

\* The header read ends in IncompleteReadError: the server closed the
\* connection's transport.
ReadEof(c) ==
    /\ tr[c] = "closed"
    /\ ReadFail(c, "valid")

\* Time advances by one sleep of the watchdogs.  A read that has reached its
\* timeout ends before more time passes.
Tick ==
    /\ LoopFree
    /\ \E c \in Conns : pc[c] \in {"cfg", "hdr"}
    /\ \A c \in Conns :
          /\ pc[c] = "cfg" => waited[c] * watchdog_sleep < config_timeout
          /\ pc[c] = "hdr" => waited[c] * watchdog_sleep < header_timeout
    /\ waited' = [c \in Conns |->
                    IF pc[c] \in {"cfg", "hdr"} THEN waited[c] + 1 ELSE waited[c]]
    /\ since_last_frame' = [p \in Phones |->
                    IF running[p] THEN since_last_frame[p] + 1 ELSE since_last_frame[p]]
    /\ UNCHANGED << running, force_stop, writer, watchdog_task, video_frame_pts,
                    current_fps, patches, port, pc, tr, sent, wd, frames_received, layers,
                    pts_sent, port_connections, active_handlers, connection_lock, servers,
                    server_list, outputs_alive, current_bind_ip, monitor, last_status,
                    consecutive_failures, fd, stop_pc, stop_idx, thread_running,
                    shutdown_in_progress, gui, loop, events, net_events, stopped_events,
                    checks, served_at_stop, mark, down_active, bad_size, config_received,
                    current_width, current_height, reconfigure_result, sender_config,
                    sender_created, senders_created, video_frame_count, stream_config,
                    error_events, first_frame, config_bytes, audio_enabled,
                    audio_frame_count, audio_sent, audio_decodes, audio_payloads,
                    codec_configs, battery_percent, sender_quality, quality_level,
                    last_json, audio_yields, bind_ip, interfaces, aac_sample_rate_index,
                    aac_channel_config, adts_frame, sender_handle, null_sends,
                    accepted_in_stop, true_at >>

\* the comparison the watchdog of a handler makes when it wakes up
Expired(p) == since_last_frame[p] * watchdog_sleep > connection_timeout

\* handle_client, finally: running = False, cancel self.watchdog_task and
\* await it (a task that is already done is awaited without suspending)
BeginFinally(c) ==
    LET p == port[c]
        wt == watchdog_task[p]
        live == IF wt = NoConn THEN FALSE ELSE wd[wt] = "alive"
    IN
    /\ LoopMine(c)
    /\ pc[c] = "finally"
    /\ running' = [running EXCEPT ![p] = FALSE]
    /\ wd' = IF live THEN [wd EXCEPT ![wt] = "done"] ELSE wd
    /\ pc' = [pc EXCEPT ![c] = IF live THEN "fin_wd" ELSE "close"]
    /\ UNCHANGED << force_stop, writer, watchdog_task, video_frame_pts, current_fps,
                    patches, port, tr, sent, frames_received, layers, pts_sent,
                    port_connections, active_handlers, connection_lock, servers,
                    server_list, outputs_alive, current_bind_ip, monitor, last_status,
                    consecutive_failures, fd, stop_pc, stop_idx, thread_running,
                    shutdown_in_progress, gui, loop, events, net_events, stopped_events,
                    checks, served_at_stop, mark, down_active, bad_size, config_received,
                    current_width, current_height, reconfigure_result, sender_config,
                    sender_created, senders_created, video_frame_count, since_last_frame,
                    waited, stream_config, error_events, first_frame, config_bytes,
                    audio_enabled, audio_frame_count, audio_sent, audio_decodes,
                    audio_payloads, codec_configs, battery_percent, sender_quality,
                    quality_level, last_json, audio_yields, bind_ip, interfaces,
                    aac_sample_rate_index, aac_channel_config, adts_frame, sender_handle,
                    null_sends, accepted_in_stop, true_at >>

\* the cancelled watchdog task has ended; the handler resumes
AfterWatchdog(c) ==
    /\ LoopFree
    /\ pc[c] = "fin_wd"
    /\ pc' = [pc EXCEPT ![c] = "close"]
    /\ UNCHANGED << running, force_stop, writer, watchdog_task, video_frame_pts,
                    current_fps, patches, port, tr, sent, wd, frames_received, layers,
                    pts_sent, port_connections, active_handlers, connection_lock, servers,
                    server_list, outputs_alive, current_bind_ip, monitor, last_status,
                    consecutive_failures, fd, stop_pc, stop_idx, thread_running,
                    shutdown_in_progress, gui, loop, events, net_events, stopped_events,
                    checks, served_at_stop, mark, down_active, bad_size, config_received,
                    current_width, current_height, reconfigure_result, sender_config,
                    sender_created, senders_created, video_frame_count, since_last_frame,
                    waited, stream_config, error_events, first_frame, config_bytes,
                    audio_enabled, audio_frame_count, audio_sent, audio_decodes,
                    audio_payloads, codec_configs, battery_percent, sender_quality,
                    quality_level, last_json, audio_yields, bind_ip, interfaces,
                    aac_sample_rate_index, aac_channel_config, adts_frame, sender_handle,
                    null_sends, accepted_in_stop, true_at >>

\* handle_client, finally: `if writer and not writer.is_closing()`: close
\* the connection's own writer and await wait_closed()
CloseWriter(c) ==
    /\ LoopMine(c)
    /\ pc[c] = "close"
    /\ tr' = IF tr[c] = "open" THEN [tr EXCEPT ![c] = "closing"] ELSE tr
    /\ pc' = [pc EXCEPT ![c] = IF tr[c] = "open" THEN "fin_close" ELSE "finish"]
    /\ UNCHANGED << running, force_stop, writer, watchdog_task, video_frame_pts,
                    current_fps, patches, port, sent, wd, frames_received, layers,
                    pts_sent, port_connections, active_handlers, connection_lock, servers,
                    server_list, outputs_alive, current_bind_ip, monitor, last_status,
                    consecutive_failures, fd, stop_pc, stop_idx, thread_running,
                    shutdown_in_progress, gui, loop, events, net_events, stopped_events,
                    checks, served_at_stop, mark, down_active, bad_size, config_received,
                    current_width, current_height, reconfigure_result, sender_config,
                    sender_created, senders_created, video_frame_count, since_last_frame,
                    waited, stream_config, error_events, first_frame, config_bytes,
                    audio_enabled, audio_frame_count, audio_sent, audio_decodes,
                    audio_payloads, codec_configs, battery_percent, sender_quality,
                    quality_level, last_json, audio_yields, bind_ip, interfaces,
                    aac_sample_rate_index, aac_channel_config, adts_frame, sender_handle,
                    null_sends, accepted_in_stop, true_at >>

\* writer.wait_closed() has returned
AfterClose(c) ==
    /\ LoopFree
    /\ pc[c] = "fin_close"
    /\ tr[c] = "closed"
    /\ pc' = [pc EXCEPT ![c] = "finish"]
    /\ UNCHANGED << running, force_stop, writer, watchdog_task, video_frame_pts,
                    current_fps, patches, port, tr, sent, wd, frames_received, layers,
                    pts_sent, port_connections, active_handlers, connection_lock, servers,
                    server_list, outputs_alive, current_bind_ip, monitor, last_status,
                    consecutive_failures, fd, stop_pc, stop_idx, thread_running,
                    shutdown_in_progress, gui, loop, events, net_events, stopped_events,
                    checks, served_at_stop, mark, down_active, bad_size, config_received,
                    current_width, current_height, reconfigure_result, sender_config,
                    sender_created, senders_created, video_frame_count, since_last_frame,
                    waited, stream_config, error_events, first_frame, config_bytes,
                    audio_enabled, audio_frame_count, audio_sent, audio_decodes,
                    audio_payloads, codec_configs, battery_percent, sender_quality,
                    quality_level, last_json, audio_yields, bind_ip, interfaces,
                    aac_sample_rate_index, aac_channel_config, adts_frame, sender_handle,
                    null_sends, accepted_in_stop, true_at >>

\* patched_handle, finally: the disconnect signal is sent unless the host is
\* shutting the server down
EmitsDisconnect == thread_running /\ ~shutdown_in_progress

\* the end of the handler with a wrapper that has no finally: the handler
\* stays in active_handlers and in the slot of its port
FinishKeepsSlot(c) ==
    LET p == port[c] IN
    /\ LoopMine(c)
    /\ pc[c] = "finish"
    /\ writer' = [writer EXCEPT ![p] = NoConn]
    /\ events' = IF EmitsDisconnect THEN Emit(events, p, "disconnected", 1) ELSE events
    /\ pc' = [pc EXCEPT ![c] = "done"]
    /\ UNCHANGED << running, force_stop, watchdog_task, video_frame_pts, current_fps,
                    patches, port, tr, sent, wd, frames_received, layers, pts_sent,
                    port_connections, active_handlers, connection_lock, servers,
                    server_list, outputs_alive, current_bind_ip, monitor, last_status,
                    consecutive_failures, fd, stop_pc, stop_idx, thread_running,
                    shutdown_in_progress, gui, loop, net_events, stopped_events, checks,
                    served_at_stop, mark, down_active, bad_size, config_received,
                    current_width, current_height, reconfigure_result, sender_config,
                    sender_created, senders_created, video_frame_count, since_last_frame,
                    waited, stream_config, error_events, first_frame, config_bytes,
                    audio_enabled, audio_frame_count, audio_sent, audio_decodes,
                    audio_payloads, codec_configs, battery_percent, sender_quality,
                    quality_level, last_json, audio_yields, bind_ip, interfaces,
                    aac_sample_rate_index, aac_channel_config, adts_frame, sender_handle,
                    null_sends, accepted_in_stop, true_at >>

\* The end of handle_client's finally (self.writer = None), the finally of
\* patched_handle (disconnect signal; the writer is closing already) and the
\* finally of client_handler_wrapper (active_handlers.pop, then the slot
\* under connection_lock).
Finish(c) ==
    LET p == port[c]
        free == connection_lock = NoConn
    IN
    /\ LoopMine(c)
    /\ pc[c] = "finish"
    /\ writer' = [writer EXCEPT ![p] = NoConn]
    /\ events' = IF EmitsDisconnect THEN Emit(events, p, "disconnected", 1) ELSE events
    /\ active_handlers' = Remove(active_handlers, p)
    /\ port_connections' = IF free THEN port_connections \ {p} ELSE port_connections
    /\ pc' = [pc EXCEPT ![c] = IF free THEN "done" ELSE "unlock"]
    /\ UNCHANGED << running, force_stop, watchdog_task, video_frame_pts, current_fps,
                    patches, port, tr, sent, wd, frames_received, layers, pts_sent,
                    connection_lock, servers, server_list, outputs_alive, current_bind_ip,
                    monitor, last_status, consecutive_failures, fd, stop_pc, stop_idx,
                    thread_running, shutdown_in_progress, gui, loop, net_events,
                    stopped_events, checks, served_at_stop, mark, down_active, bad_size,
                    config_received, current_width, current_height, reconfigure_result,
                    sender_config, sender_created, senders_created, video_frame_count,
                    since_last_frame, waited, stream_config, error_events, first_frame,
                    config_bytes, audio_enabled, audio_frame_count, audio_sent,
                    audio_decodes, audio_payloads, codec_configs, battery_percent,
                    sender_quality, quality_level, last_json, audio_yields, bind_ip,
                    interfaces, aac_sample_rate_index, aac_channel_config, adts_frame,
                    sender_handle, null_sends, accepted_in_stop, true_at >>

\* client_handler_wrapper, finally: the lock was taken; it is free now
Unlock(c) ==
    /\ LoopFree
    /\ pc[c] = "unlock"
    /\ connection_lock = NoConn
    /\ port_connections' = port_connections \ {port[c]}
    /\ pc' = [pc EXCEPT ![c] = "done"]
    /\ UNCHANGED << running, force_stop, writer, watchdog_task, video_frame_pts,
                    current_fps, patches, port, tr, sent, wd, frames_received, layers,
                    pts_sent, active_handlers, connection_lock, servers, server_list,
                    outputs_alive, current_bind_ip, monitor, last_status,
                    consecutive_failures, fd, stop_pc, stop_idx, thread_running,
                    shutdown_in_progress, gui, loop, events, net_events, stopped_events,
                    checks, served_at_stop, mark, down_active, bad_size, config_received,
                    current_width, current_height, reconfigure_result, sender_config,
                    sender_created, senders_created, video_frame_count, since_last_frame,
                    waited, stream_config, error_events, first_frame, config_bytes,
                    audio_enabled, audio_frame_count, audio_sent, audio_decodes,
                    audio_payloads, codec_configs, battery_percent, sender_quality,
                    quality_level, last_json, audio_yields, bind_ip, interfaces,
                    aac_sample_rate_index, aac_channel_config, adts_frame, sender_handle,
                    null_sends, accepted_in_stop, true_at >>

\* connection_watchdog: one wake-up after `await asyncio.sleep(5)`.  expired is
\* the comparison time_since_last_frame > connection_timeout (30 s).
ConnectionWatchdog(c, expired) ==
    LET p == port[c] IN
    /\ LoopFree
    /\ wd[c] = "alive"
    /\ running' = IF expired THEN [running EXCEPT ![p] = FALSE] ELSE running
    /\ wd' = IF expired \/ ~running[p] THEN [wd EXCEPT ![c] = "done"] ELSE wd
    /\ expired \/ ~running[p]
    /\ UNCHANGED << force_stop, writer, watchdog_task, video_frame_pts, current_fps,
                    patches, port, pc, tr, sent, frames_received, layers, pts_sent,
                    port_connections, active_handlers, connection_lock, servers,
                    server_list, outputs_alive, current_bind_ip, monitor, last_status,
                    consecutive_failures, fd, stop_pc, stop_idx, thread_running,
                    shutdown_in_progress, gui, loop, events, net_events, stopped_events,
                    checks, served_at_stop, mark, down_active, bad_size, config_received,
                    current_width, current_height, reconfigure_result, sender_config,
                    sender_created, senders_created, video_frame_count, since_last_frame,
                    waited, stream_config, error_events, first_frame, config_bytes,
                    audio_enabled, audio_frame_count, audio_sent, audio_decodes,
                    audio_payloads, codec_configs, battery_percent, sender_quality,
                    quality_level, last_json, audio_yields, bind_ip, interfaces,
                    aac_sample_rate_index, aac_channel_config, adts_frame, sender_handle,
                    null_sends, accepted_in_stop, true_at >>

\* inputs of the connections: the fps of the handshake (the default of the
\* stream where the timestamps are not looked at) and the frame kinds
NegotiatedFps == {30, 60}
DefaultFps == {config_fps}
FrameKinds == {"video", "other"}
AudioKinds == {"video", "video_config", "audio", "audio_config", "metadata"}
\* the size field of a header: 0, 1..10_000_000, above 10_000_000
HeaderSizes == {"zero", "valid", "huge"}
ValidSize == {"valid"}
\* what the first read of a connection finds
FirstTypes == {"config", "video", "none"}
ConfigFirst == {"config"}
\* the keys of the configuration JSON: every payload, and the payload with
\* the three video keys, audio off and no battery level
JsonPayloads ==
    [present : SUBSET {"width", "height", "fps"},
     audio : {"absent", "true", "false"},
     battery : {<< >>, << 80 >>},
     bitrate : {"number", "text"}]
PlainJson ==
    {[present |-> {"width", "height", "fps"}, audio |-> "false", battery |-> << >>,
      bitrate |-> "number"]}
\* the width and height a configuration declares and a decoded picture has
DefaultShape == {<< config_width, config_height >>}
VideoShapes == {<< 1280, 720 >>, << 1920, 1080 >>}
\* what create_sender returns when reconfigure makes a new sender
SenderCreated == {TRUE}
SenderMayFail == BOOLEAN

\* The watchdog's comparison: last_frame_time is set when handle_client starts
\* and at the top of every loop iteration, and every read between two such
\* points ends within its timeout (5 s + 2 s for the configuration, 10 s +
\* 5 s for a frame), so while the handler runs the silence the watchdog sees
\* stays below connection_timeout.
WatchdogExpiry == {FALSE}

\* --------------------------------------------------------- force_disconnect
\* The force_disconnect() tasks one gather created run one after the other
\* (they are adjacent in the loop's ready queue): each sets _force_stop and
\* clears running, and closes self.writer unless it is None or closing
\* already, then awaits its wait_closed().
ForceDisconnect(o) ==
    LET targets == fd[o].on
        closing == {c \in Conns : /\ tr[c] = "open"
                                   /\ \E p \in targets : writer[p] = c}
    IN
    /\ LoopFree
    /\ fd[o].st = "sched"
    /\ force_stop' = [p \in Phones |-> IF p \in targets THEN TRUE ELSE force_stop[p]]
    /\ running' = [p \in Phones |-> IF p \in targets THEN FALSE ELSE running[p]]
    /\ tr' = [c \in Conns |-> IF c \in closing THEN "closing" ELSE tr[c]]
    /\ fd' = [fd EXCEPT ![o] = [st |-> "wait", on |-> closing]]
    /\ UNCHANGED << writer, watchdog_task, video_frame_pts, current_fps, patches, port, pc,
                    sent, wd, frames_received, layers, pts_sent, port_connections,
                    active_handlers, connection_lock, servers, server_list, outputs_alive,
                    current_bind_ip, monitor, last_status, consecutive_failures, stop_pc,
                    stop_idx, thread_running, shutdown_in_progress, gui, loop, events,
                    net_events, stopped_events, checks, served_at_stop, mark, down_active,
                    bad_size, config_received, current_width, current_height,
                    reconfigure_result, sender_config, sender_created, senders_created,
                    video_frame_count, since_last_frame, waited, stream_config,
                    error_events, first_frame, config_bytes, audio_enabled,
                    audio_frame_count, audio_sent, audio_decodes, audio_payloads,
                    codec_configs, battery_percent, sender_quality, quality_level,
                    last_json, audio_yields, bind_ip, interfaces, aac_sample_rate_index,
                    aac_channel_config, adts_frame, sender_handle, null_sends,
                    accepted_in_stop, true_at >>

\* every force_disconnect() of the gather has returned.  close() on a
\* transport with an empty write buffer schedules connection_lost at once, so
\* wait_closed() returns before its 2 s deadline (and the gather before the
\* 3 s deadline of stop()).
Disconnected(o) == fd[o].st = "wait" /\ \A c \in fd[o].on : tr[c] = "closed"

\* ------------------------------------------------------------ the monitor
\* monitor_network checks the interfaces only for a bind address that is set
\* and is not 0.0.0.0
Monitored == current_bind_ip # "" /\ current_bind_ip # "0.0.0.0"

\* a monitor that reports the first missed check
NetworkDownEager(ip_still_exists, failures, status) == ~ip_still_exists /\ status

\* a monitor that reports every check that finds the address
NetworkUpLevel(ip_still_exists, status) == ip_still_exists

\* monitor_network: ip_still_exists, the bind address is among the addresses
\* get_local_ip_addresses() returns.  listed: an interface carries the
\* address; get_local_ip_addresses() skips 127.0.0.1 on every interface.
IpStillExists(listed) == listed /\ current_bind_ip # Loopback

\* monitor_network, "network went down", with the failure count after this check
NetworkDown(ip_still_exists, failures, status) ==
    ~ip_still_exists /\ failures >= max_failures /\ status

\* monitor_network, "network came back up"
NetworkUp(ip_still_exists, status) == ip_still_exists /\ ~status

\* One pass of monitor_network's loop after `await asyncio.sleep(2)`, for a
\* monitored address: the check, the callback (network_status_wrapper sends
\* the signal while the thread runs) and, when the network went down with
\* handlers active, the gather of their force_disconnect().
MonitorCheck(ip_still_exists, limit) ==
    LET failures == IF ip_still_exists THEN 0 ELSE consecutive_failures + 1
        down == NetworkDown(ip_still_exists, failures, last_status)
        up == NetworkUp(ip_still_exists, last_status)
        gathers == down /\ active_handlers # << >>
    IN
    /\ LoopFree
    /\ monitor = "sleep"
    /\ Monitored
    /\ Len(checks) < limit
    /\ checks' = Append(checks, ip_still_exists)
    /\ consecutive_failures' = failures
    /\ last_status' = IF down THEN FALSE ELSE IF up THEN TRUE ELSE last_status
    /\ net_events' = IF (down \/ up) /\ thread_running THEN Append(net_events, up)
                     ELSE net_events
    /\ fd' = IF gathers
             THEN [fd EXCEPT !["monitor"] = [st |-> "sched", on |-> Range(active_handlers)]]
             ELSE fd
    /\ monitor' = IF gathers THEN "disconnecting" ELSE "sleep"
    /\ down_active' = IF down THEN {c \in Conns : pc[c] \in {"cfg", "hdr"}} ELSE down_active
    /\ UNCHANGED << running, force_stop, writer, watchdog_task, video_frame_pts,
                    current_fps, patches, port, pc, tr, sent, wd, frames_received, layers,
                    pts_sent, port_connections, active_handlers, connection_lock, servers,
                    server_list, outputs_alive, current_bind_ip, stop_pc, stop_idx,
                    thread_running, shutdown_in_progress, gui, loop, events,
                    stopped_events, served_at_stop, mark, bad_size, config_received,
                    current_width, current_height, reconfigure_result, sender_config,
                    sender_created, senders_created, video_frame_count, since_last_frame,
                    waited, stream_config, error_events, first_frame, config_bytes,
                    audio_enabled, audio_frame_count, audio_sent, audio_decodes,
                    audio_payloads, codec_configs, battery_percent, sender_quality,
                    quality_level, last_json, audio_yields, bind_ip, interfaces,
                    aac_sample_rate_index, aac_channel_config, adts_frame, sender_handle,
                    null_sends, accepted_in_stop, true_at >>

\* monitor_network: the gather has returned, back to the sleep
MonitorResume ==
    /\ LoopFree
    /\ monitor = "disconnecting"
    /\ Disconnected("monitor")
    /\ monitor' = "sleep"
    /\ fd' = [fd EXCEPT !["monitor"] = NoTasks]
    /\ UNCHANGED << running, force_stop, writer, watchdog_task, video_frame_pts,
                    current_fps, patches, port, pc, tr, sent, wd, frames_received, layers,
                    pts_sent, port_connections, active_handlers, connection_lock, servers,
                    server_list, outputs_alive, current_bind_ip, last_status,
                    consecutive_failures, stop_pc, stop_idx, thread_running,
                    shutdown_in_progress, gui, loop, events, net_events, stopped_events,
                    checks, served_at_stop, mark, down_active, bad_size, config_received,
                    current_width, current_height, reconfigure_result, sender_config,
                    sender_created, senders_created, video_frame_count, since_last_frame,
                    waited, stream_config, error_events, first_frame, config_bytes,
                    audio_enabled, audio_frame_count, audio_sent, audio_decodes,
                    audio_payloads, codec_configs, battery_percent, sender_quality,
                    quality_level, last_json, audio_yields, bind_ip, interfaces,
                    aac_sample_rate_index, aac_channel_config, adts_frame, sender_handle,
                    null_sends, accepted_in_stop, true_at >>

\* --------------------------------------------------- OMTBridgeServer.stop()
\* stop(), "Close all server sockets": resumed in the loop over self.servers,
\* run i closes the next server of the list and awaits wait_closed(); after
\* the last one (or when the list has been cleared) it clears the list and
\* sleeps.  Closing a listener ends its serve_forever(): the gather in
\* start() is cancelled and start()'s finally enters stop() a second time
\* (its monitor task is done, so that run goes on to the notifications).
CloseServers(i) ==
    LET more == stop_idx[i] < server_list
        reenter == more /\ stop_pc[2] = "idle"
    IN
    /\ servers' = IF more THEN servers \ {stop_idx[i] + 1} ELSE servers
    /\ stop_idx' = IF more THEN [stop_idx EXCEPT ![i] = @ + 1] ELSE stop_idx
    /\ server_list' = IF more THEN server_list ELSE 0
    /\ stop_pc' = [j \in 1..2 |->
                     IF j = i THEN (IF more THEN "close" ELSE "sleep")
                     ELSE IF j = 2 /\ reenter THEN "notify"
                     ELSE stop_pc[j]]

\* the signals disconnect_signal_wrapper sends for the handlers in active_handlers
Notified(ev) ==
    [p \in Phones |-> IF InSeq(active_handlers, p) /\ thread_running
                      THEN Append(ev[p], "disconnected") ELSE ev[p]]

\* stop() up to its first await that another task's step can precede: the
\* monitor task is cancelled and awaited (the cancellation reaches the gather
\* the monitor may be awaiting and its force_disconnect() tasks; nothing the
\* rest of stop() reads changes while the cancelled monitor ends), then the
\* disconnect signals, then the gather of force_disconnect() for the active
\* handlers; with no active handler stop() goes on to the servers.
StopNotify(i) ==
    LET cancelled == [fd EXCEPT !["monitor"] = NoTasks] IN
    /\ LoopFree
    /\ stop_pc[i] = "notify"
    /\ monitor' = "cancelled"
    /\ events' = Notified(events)
    /\ IF active_handlers # << >>
       THEN /\ fd' = [cancelled EXCEPT ![StopOwner(i)] =
                         [st |-> "sched", on |-> Range(active_handlers)]]
            /\ stop_pc' = [stop_pc EXCEPT ![i] = "disc"]
            /\ UNCHANGED << servers, stop_idx, server_list >>
       ELSE /\ fd' = cancelled
            /\ CloseServers(i)
    /\ UNCHANGED << running, force_stop, writer, watchdog_task, video_frame_pts,
                    current_fps, patches, port, pc, tr, sent, wd, frames_received, layers,
                    pts_sent, port_connections, active_handlers, connection_lock,
                    outputs_alive, current_bind_ip, last_status, consecutive_failures,
                    thread_running, shutdown_in_progress, gui, loop, net_events,
                    stopped_events, checks, served_at_stop, mark, down_active, bad_size,
                    config_received, current_width, current_height, reconfigure_result,
                    sender_config, sender_created, senders_created, video_frame_count,
                    since_last_frame, waited, stream_config, error_events, first_frame,
                    config_bytes, audio_enabled, audio_frame_count, audio_sent,
                    audio_decodes, audio_payloads, codec_configs, battery_percent,
                    sender_quality, quality_level, last_json, audio_yields, bind_ip,
                    interfaces, aac_sample_rate_index, aac_channel_config, adts_frame,
                    sender_handle, null_sends, accepted_in_stop, true_at >>

\* stop(): the gather has returned
StopDisconnected(i) ==
    /\ LoopFree
    /\ stop_pc[i] = "disc"
    /\ Disconnected(StopOwner(i))
    /\ fd' = [fd EXCEPT ![StopOwner(i)] = NoTasks]
    /\ CloseServers(i)
    /\ UNCHANGED << running, force_stop, writer, watchdog_task, video_frame_pts,
                    current_fps, patches, port, pc, tr, sent, wd, frames_received, layers,
                    pts_sent, port_connections, active_handlers, connection_lock,
                    outputs_alive, current_bind_ip, monitor, last_status,
                    consecutive_failures, thread_running, shutdown_in_progress, gui, loop,
                    events, net_events, stopped_events, checks, served_at_stop, mark,
                    down_active, bad_size, config_received, current_width, current_height,
                    reconfigure_result, sender_config, sender_created, senders_created,
                    video_frame_count, since_last_frame, waited, stream_config,
                    error_events, first_frame, config_bytes, audio_enabled,
                    audio_frame_count, audio_sent, audio_decodes, audio_payloads,
                    codec_configs, battery_percent, sender_quality, quality_level,
                    last_json, audio_yields, bind_ip, interfaces, aac_sample_rate_index,
                    aac_channel_config, adts_frame, sender_handle, null_sends,
                    accepted_in_stop, true_at >>

\* stop(): wait_closed() of the server closed last has returned
StopCloseServer(i) ==
    /\ LoopFree
    /\ stop_pc[i] = "close"
    /\ CloseServers(i)
    /\ UNCHANGED << running, force_stop, writer, watchdog_task, video_frame_pts,
                    current_fps, patches, port, pc, tr, sent, wd, frames_received, layers,
                    pts_sent, port_connections, active_handlers, connection_lock,
                    outputs_alive, current_bind_ip, monitor, last_status,
                    consecutive_failures, fd, thread_running, shutdown_in_progress, gui,
                    loop, events, net_events, stopped_events, checks, served_at_stop, mark,
                    down_active, bad_size, config_received, current_width, current_height,
                    reconfigure_result, sender_config, sender_created, senders_created,
                    video_frame_count, since_last_frame, waited, stream_config,
                    error_events, first_frame, config_bytes, audio_enabled,
                    audio_frame_count, audio_sent, audio_decodes, audio_payloads,
                    codec_configs, battery_percent, sender_quality, quality_level,
                    last_json, audio_yields, bind_ip, interfaces, aac_sample_rate_index,
                    aac_channel_config, adts_frame, sender_handle, null_sends,
                    accepted_in_stop, true_at >>

\* a stop() that destroys the outputs without waiting for the listeners
StopFinishEarly(i) ==
    /\ LoopFree
    /\ stop_pc[i] \in {"disc", "close", "sleep"}
    /\ running' = [p \in Phones |-> FALSE]
    /\ outputs_alive' = FALSE
    /\ sender_handle' = [p \in Phones |->
                            IF sender_handle[p] = "live" THEN "destroyed"
                            ELSE sender_handle[p]]
    /\ stop_pc' = [stop_pc EXCEPT ![i] = "done"]
    /\ UNCHANGED << force_stop, writer, watchdog_task, video_frame_pts, current_fps,
                    patches, port, pc, tr, sent, wd, frames_received, layers, pts_sent,
                    port_connections, active_handlers, connection_lock, servers,
                    server_list, current_bind_ip, monitor, last_status,
                    consecutive_failures, fd, stop_idx, thread_running,
                    shutdown_in_progress, gui, loop, events, net_events, stopped_events,
                    checks, served_at_stop, mark, down_active, bad_size, config_received,
                    current_width, current_height, reconfigure_result, sender_config,
                    sender_created, senders_created, video_frame_count, since_last_frame,
                    waited, stream_config, error_events, first_frame, config_bytes,
                    audio_enabled, audio_frame_count, audio_sent, audio_decodes,
                    audio_payloads, codec_configs, battery_percent, sender_quality,
                    quality_level, last_json, audio_yields, bind_ip, interfaces,
                    aac_sample_rate_index, aac_channel_config, adts_frame, null_sends,
                    accepted_in_stop, true_at >>

\* stop(), after the two sleeps: running = False on every handler, destroy
\* every output, return.  The first run returns into _async_stop, whose
\* future has its result after another sleep in which nothing is assigned.
StopFinish(i) ==
    /\ LoopFree
    /\ stop_pc[i] = "sleep"
    /\ running' = [p \in Phones |-> FALSE]
    /\ outputs_alive' = FALSE
    /\ sender_handle' = [p \in Phones |->
                            IF sender_handle[p] = "live" THEN "destroyed"
                            ELSE sender_handle[p]]
    /\ stop_pc' = [stop_pc EXCEPT ![i] = "done"]
    /\ UNCHANGED << force_stop, writer, watchdog_task, video_frame_pts, current_fps,
                    patches, port, pc, tr, sent, wd, frames_received, layers, pts_sent,
                    port_connections, active_handlers, connection_lock, servers,
                    server_list, current_bind_ip, monitor, last_status,
                    consecutive_failures, fd, stop_idx, thread_running,
                    shutdown_in_progress, gui, loop, events, net_events, stopped_events,
                    checks, served_at_stop, mark, down_active, bad_size, config_received,
                    current_width, current_height, reconfigure_result, sender_config,
                    sender_created, senders_created, video_frame_count, since_last_frame,
                    waited, stream_config, error_events, first_frame, config_bytes,
                    audio_enabled, audio_frame_count, audio_sent, audio_decodes,
                    audio_payloads, codec_configs, battery_percent, sender_quality,
                    quality_level, last_json, audio_yields, bind_ip, interfaces,
                    aac_sample_rate_index, aac_channel_config, adts_frame, null_sends,
                    accepted_in_stop, true_at >>

\* ----------------------------------------------------------- ServerThread
\* start() has returned from its second stop(): run_until_complete ends and
\* run() goes through its finally: running = False, cleanup_loop (every
\* pending task is cancelled and the loop closed; the signals the tasks could
\* still send are behind `running`), server_stopped.
LoopEnd ==
    /\ LoopFree
    /\ stop_pc[2] = "done"
    /\ thread_running' = FALSE
    /\ loop' = "finished"
    /\ stopped_events' = stopped_events + 1
    /\ stop_pc' = [stop_pc EXCEPT ![1] = IF @ = "done" THEN "done" ELSE "cancelled"]
    /\ pc' = [c \in Conns |-> IF pc[c] = "new" THEN "new" ELSE "done"]
    /\ wd' = [c \in Conns |-> IF wd[c] = "alive" THEN "done" ELSE wd[c]]
    /\ tr' = [c \in Conns |-> IF pc[c] = "new" THEN tr[c] ELSE "closed"]
    /\ running' = [p \in Phones |-> FALSE]
    /\ writer' = [p \in Phones |-> NoConn]
    /\ active_handlers' = << >>
    /\ port_connections' = {}
    /\ connection_lock' = NoConn
    /\ fd' = [o \in Owners |-> NoTasks]
    /\ UNCHANGED << force_stop, watchdog_task, video_frame_pts, current_fps, patches, port,
                    sent, frames_received, layers, pts_sent, servers, server_list,
                    outputs_alive, current_bind_ip, monitor, last_status,
                    consecutive_failures, stop_idx, shutdown_in_progress, gui, events,
                    net_events, checks, served_at_stop, mark, down_active, bad_size,
                    config_received, current_width, current_height, reconfigure_result,
                    sender_config, sender_created, senders_created, video_frame_count,
                    since_last_frame, waited, stream_config, error_events, first_frame,
                    config_bytes, audio_enabled, audio_frame_count, audio_sent,
                    audio_decodes, audio_payloads, codec_configs, battery_percent,
                    sender_quality, quality_level, last_json, audio_yields, bind_ip,
                    interfaces, aac_sample_rate_index, aac_channel_config, adts_frame,
                    sender_handle, null_sends, accepted_in_stop, true_at >>

\* ServerThread.stop() on the host thread, up to future.result(timeout=5):
\* shutdown_in_progress = True, _async_stop handed to the loop
GuiStop ==
    /\ gui = "idle"
    /\ thread_running
    /\ ~shutdown_in_progress
    /\ loop = "running"
    /\ shutdown_in_progress' = TRUE
    /\ stop_pc' = [stop_pc EXCEPT ![1] = "notify"]
    /\ gui' = "waiting"
    /\ served_at_stop' = {port[c] : c \in {d \in Conns : pc[d] \in Serving}}
    /\ mark' = [p \in Phones |-> Disconnects(events[p])]
    /\ UNCHANGED << running, force_stop, writer, watchdog_task, video_frame_pts,
                    current_fps, patches, port, pc, tr, sent, wd, frames_received, layers,
                    pts_sent, port_connections, active_handlers, connection_lock, servers,
                    server_list, outputs_alive, current_bind_ip, monitor, last_status,
                    consecutive_failures, fd, stop_idx, thread_running, loop, events,
                    net_events, stopped_events, checks, down_active, bad_size,
                    config_received, current_width, current_height, reconfigure_result,
                    sender_config, sender_created, senders_created, video_frame_count,
                    since_last_frame, waited, stream_config, error_events, first_frame,
                    config_bytes, audio_enabled, audio_frame_count, audio_sent,
                    audio_decodes, audio_payloads, codec_configs, battery_percent,
                    sender_quality, quality_level, last_json, audio_yields, bind_ip,
                    interfaces, aac_sample_rate_index, aac_channel_config, adts_frame,
                    sender_handle, null_sends, accepted_in_stop, true_at >>

\* future.result(timeout=5) is over: the future has its result, or it was
\* cancelled with the loop's tasks, or the 5 s passed (the closing of the
\* servers, up to 2 s each, and the sleeps of stop() took longer).  Then
\* running = False.
StopTimedOut == stop_pc[1] \in {"close", "sleep"}

GuiStopResult ==
    /\ gui = "waiting"
    /\ stop_pc[1] \in {"done", "cancelled"} \/ StopTimedOut
    /\ thread_running' = FALSE
    /\ gui' = "joining"
    /\ UNCHANGED << running, force_stop, writer, watchdog_task, video_frame_pts,
                    current_fps, patches, port, pc, tr, sent, wd, frames_received, layers,
                    pts_sent, port_connections, active_handlers, connection_lock, servers,
                    server_list, outputs_alive, current_bind_ip, monitor, last_status,
                    consecutive_failures, fd, stop_pc, stop_idx, shutdown_in_progress,
                    loop, events, net_events, stopped_events, checks, served_at_stop, mark,
                    down_active, bad_size, config_received, current_width, current_height,
                    reconfigure_result, sender_config, sender_created, senders_created,
                    video_frame_count, since_last_frame, waited, stream_config,
                    error_events, first_frame, config_bytes, audio_enabled,
                    audio_frame_count, audio_sent, audio_decodes, audio_payloads,
                    codec_configs, battery_percent, sender_quality, quality_level,
                    last_json, audio_yields, bind_ip, interfaces, aac_sample_rate_index,
                    aac_channel_config, adts_frame, sender_handle, null_sends,
                    accepted_in_stop, true_at >>

\* a stop() that returns without waiting for the thread
GuiReturn ==
    /\ gui = "joining"
    /\ gui' = "returned"
    /\ UNCHANGED << running, force_stop, writer, watchdog_task, video_frame_pts,
                    current_fps, patches, port, pc, tr, sent, wd, frames_received, layers,
                    pts_sent, port_connections, active_handlers, connection_lock, servers,
                    server_list, outputs_alive, current_bind_ip, monitor, last_status,
                    consecutive_failures, fd, stop_pc, stop_idx, thread_running,
                    shutdown_in_progress, loop, events, net_events, stopped_events, checks,
                    served_at_stop, mark, down_active, bad_size, config_received,
                    current_width, current_height, reconfigure_result, sender_config,
                    sender_created, senders_created, video_frame_count, since_last_frame,
                    waited, stream_config, error_events, first_frame, config_bytes,
                    audio_enabled, audio_frame_count, audio_sent, audio_decodes,
                    audio_payloads, codec_configs, battery_percent, sender_quality,
                    quality_level, last_json, audio_yields, bind_ip, interfaces,
                    aac_sample_rate_index, aac_channel_config, adts_frame, sender_handle,
                    null_sends, accepted_in_stop, true_at >>

\* ServerThread.stop(), the end: quit(), wait(5000); a thread that has not
\* finished by then is terminated, and stop() returns.
GuiJoin ==
    /\ gui = "joining"
    /\ loop' = IF loop = "running" THEN "terminated" ELSE loop
    /\ gui' = "returned"
    /\ UNCHANGED << running, force_stop, writer, watchdog_task, video_frame_pts,
                    current_fps, patches, port, pc, tr, sent, wd, frames_received, layers,
                    pts_sent, port_connections, active_handlers, connection_lock, servers,
                    server_list, outputs_alive, current_bind_ip, monitor, last_status,
                    consecutive_failures, fd, stop_pc, stop_idx, thread_running,
                    shutdown_in_progress, events, net_events, stopped_events, checks,
                    served_at_stop, mark, down_active, bad_size, config_received,
                    current_width, current_height, reconfigure_result, sender_config,
                    sender_created, senders_created, video_frame_count, since_last_frame,
                    waited, stream_config, error_events, first_frame, config_bytes,
                    audio_enabled, audio_frame_count, audio_sent, audio_decodes,
                    audio_payloads, codec_configs, battery_percent, sender_quality,
                    quality_level, last_json, audio_yields, bind_ip, interfaces,
                    aac_sample_rate_index, aac_channel_config, adts_frame, sender_handle,
                    null_sends, accepted_in_stop, true_at >>

\* ------------------------------------------------------------ bind address
\* str.lower() on the characters of the interface names
Lower(ch) ==
    IF ch = "E" THEN "e" ELSE IF ch = "W" THEN "w" ELSE IF ch = "F" THEN "f" ELSE ch

\* `pattern in name.lower()`: the pattern is a substring of the name
Contains(pattern, name) ==
    \E k \in 0..(Len(name) - Len(pattern)) :
        \A j \in 1..Len(pattern) : Lower(name[k + j]) = pattern[j]

\* get_local_ip_addresses(): the IPv4 addresses of the interfaces, in their
\* order, without 127.0.0.1
get_local_ip_addresses(list) == SelectSeq(list, LAMBDA a : a.ip # Loopback)

\* priority_patterns of select_best_interface
priority_patterns ==
    << << "e", "t", "h", "e", "r", "n", "e", "t" >>,
       << "w", "i", "-", "f", "i" >>,
       << "w", "l", "a", "n" >>,
       << "e", "t", "h" >>,
       << "e", "n" >> >>

\* select_best_interface taking the first address listed
select_first_interface(ip_addresses) ==
    IF ip_addresses = << >> THEN "0.0.0.0" ELSE ip_addresses[1].ip

\* select_best_interface(ip_addresses): the two nested loops return the
\* address of the first entry that contains the first pattern any entry
\* contains; without a match the first entry, without entries 0.0.0.0
select_best_interface(ip_addresses) ==
    LET Hits(k) == {i \in 1..Len(ip_addresses) :
                       Contains(priority_patterns[k], ip_addresses[i].interface)}
        found == {k \in 1..Len(priority_patterns) : Hits(k) # {}}
        Min(S) == CHOOSE x \in S : \A y \in S : x <= y
    IN
    IF ip_addresses = << >> THEN "0.0.0.0"
    ELSE IF found # {} THEN ip_addresses[Min(Hits(Min(found)))].ip
    ELSE ip_addresses[1].ip

\* start() up to its first await: the bind address is self.bind_ip if it is
\* set, else the one select_best_interface picks (0.0.0.0 without
\* interfaces), and is stored in current_bind_ip
ResolveBind ==
    /\ monitor = "unstarted"
    /\ current_bind_ip = ""
    /\ current_bind_ip' =
           IF bind_ip # "" THEN bind_ip
           ELSE select_best_interface(get_local_ip_addresses(interfaces))
    /\ UNCHANGED << running, force_stop, writer, watchdog_task, video_frame_pts,
                    current_fps, patches, port, pc, tr, sent, wd, frames_received, layers,
                    pts_sent, port_connections, active_handlers, connection_lock, servers,
                    server_list, outputs_alive, monitor, last_status, consecutive_failures,
                    fd, stop_pc, stop_idx, thread_running, shutdown_in_progress, gui, loop,
                    events, net_events, stopped_events, checks, served_at_stop, mark,
                    down_active, bad_size, config_received, current_width, current_height,
                    reconfigure_result, sender_config, sender_created, senders_created,
                    video_frame_count, since_last_frame, waited, stream_config,
                    error_events, first_frame, config_bytes, audio_enabled,
                    audio_frame_count, audio_sent, audio_decodes, audio_payloads,
                    codec_configs, battery_percent, sender_quality, quality_level,
                    last_json, audio_yields, bind_ip, interfaces, aac_sample_rate_index,
                    aac_channel_config, adts_frame, sender_handle, null_sends,
                    accepted_in_stop, true_at >>

\* start(), the loop over the configs and the creation of the monitor task:
\* asyncio.start_server binds the ports in bound and raises OSError for the
\* others; the `except Exception` of the loop body logs it and the loop
\* goes on with the next config.  Nothing is raised to ServerThread.run, whose
\* `except Exception` is the only place that sends error_occurred.
StartServer(bound) ==
    /\ monitor = "unstarted"
    /\ current_bind_ip # ""
    /\ servers' = bound
    /\ server_list' = Cardinality(bound)
    /\ monitor' = "sleep"
    /\ UNCHANGED << running, force_stop, writer, watchdog_task, video_frame_pts,
                    current_fps, patches, port, pc, tr, sent, wd, frames_received, layers,
                    pts_sent, port_connections, active_handlers, connection_lock,
                    outputs_alive, current_bind_ip, last_status, consecutive_failures, fd,
                    stop_pc, stop_idx, thread_running, shutdown_in_progress, gui, loop,
                    events, net_events, stopped_events, checks, served_at_stop, mark,
                    down_active, bad_size, config_received, current_width, current_height,
                    reconfigure_result, sender_config, sender_created, senders_created,
                    video_frame_count, since_last_frame, waited, stream_config,
                    error_events, first_frame, config_bytes, audio_enabled,
                    audio_frame_count, audio_sent, audio_decodes, audio_payloads,
                    codec_configs, battery_percent, sender_quality, quality_level,
                    last_json, audio_yields, bind_ip, interfaces, aac_sample_rate_index,
                    aac_channel_config, adts_frame, sender_handle, null_sends,
                    accepted_in_stop, true_at >>

\* ---------------------------------------------------------------- quality
\* OMTOutput.update_quality(level): the quality the output publishes with
\* after the call, whatever it was before
update_quality(quality, level) == level

\* ServerThread.update_omt_quality(level) schedules _async_update_quality on
\* the loop, which calls OMTBridgeServer.update_omt_quality: update_quality
\* of every output in self.outputs (none once stop() has cleared them).
QualityLevels == {Low, Medium, High}
UpdateQuality(level) ==
    /\ LoopFree
    /\ quality_level' = << level >>
    /\ sender_quality' = [p \in Phones |->
                             IF outputs_alive
                             THEN update_quality(sender_quality[p], level)
                             ELSE sender_quality[p]]
    /\ UNCHANGED << running, force_stop, writer, watchdog_task, video_frame_pts,
                    current_fps, patches, port, pc, tr, sent, wd, frames_received, layers,
                    pts_sent, port_connections, active_handlers, connection_lock, servers,
                    server_list, outputs_alive, current_bind_ip, monitor, last_status,
                    consecutive_failures, fd, stop_pc, stop_idx, thread_running,
                    shutdown_in_progress, gui, loop, events, net_events, stopped_events,
                    checks, served_at_stop, mark, down_active, bad_size, config_received,
                    current_width, current_height, reconfigure_result, sender_config,
                    sender_created, senders_created, video_frame_count, since_last_frame,
                    waited, stream_config, error_events, first_frame, config_bytes,
                    audio_enabled, audio_frame_count, audio_sent, audio_decodes,
                    audio_payloads, codec_configs, battery_percent, last_json,
                    audio_yields, bind_ip, interfaces, aac_sample_rate_index,
                    aac_channel_config, adts_frame, sender_handle, null_sends,
                    accepted_in_stop, true_at >>

\* ------------------------------------------------------------------- next
\* a client connects, its wrapper starts, a closed transport is lost
Arrive(c) ==
    \/ \E p \in Phones : Connect(c, p)
    \/ WrapperStart(c)
    \/ ConnectionLost(c)

\* the handshake of connection c with its inputs drawn from the sets in inputs
Handshake(c, inputs) ==
    /\ pc[c] = "cfg"
    /\ \E ok \in BOOLEAN, fps \in inputs.rates, size \in inputs.sizes,
          shape \in inputs.declared, created \in inputs.created,
          first \in inputs.first, json \in inputs.payloads :
           ReceiveConfig(c, ok, fps, size, shape, created, first, json)

\* the finally blocks of handle_client, patched_handle and the wrapper
Leave(c) ==
    \/ BeginFinally(c)
    \/ AfterWatchdog(c)
    \/ CloseWriter(c)
    \/ AfterClose(c)
    \/ Finish(c)

\* the steps of a served connection c, with at most limit frames read; inputs
\* holds the sets its inputs are drawn from: the fps and the shape of the
\* handshake, the size fields of the headers, the shape of the decoded
\* pictures and the results of create_sender
ServeAny(c, limit, inputs) ==
    \/ Arrive(c)
    \/ Handshake(c, inputs)
    \/ \E kind \in inputs.kinds, decoded, success \in BOOLEAN, shape \in inputs.pictures :
           ReadFrame(c, limit, kind, decoded, success, shape)
    \/ \E size \in inputs.sizes : ReadFail(c, size)
    \/ Leave(c)

\* the same for clients whose video has the shape of the StreamConfig, the
\* handshake's fps being one of rates and the size fields among sizes
ServeStep(c, limit, rates, sizes) ==
    ServeAny(c, limit, [rates |-> rates, sizes |-> sizes,
                        declared |-> DefaultShape, pictures |-> DefaultShape,
                        created |-> SenderCreated, first |-> ConfigFirst,
                        payloads |-> PlainJson, kinds |-> FrameKinds])

\* the steps that only connections sharing a port take: the end of a
\* rejection and the wait for connection_lock
ContendStep(c) ==
    \/ RejectDone(c)
    \/ Unlock(c)

\* the watchdog task of connection c seeing that its handler was stopped
WatchdogStep(c) == \E expired \in WatchdogExpiry : ConnectionWatchdog(c, expired)

MonitorStep(limit) ==
    \/ \E listed \in BOOLEAN : MonitorCheck(IpStillExists(listed), limit)
    \/ MonitorResume
    \/ ForceDisconnect("monitor")

StopStep ==
    \/ \E i \in 1..2 :
        \/ StopNotify(i)
        \/ StopDisconnected(i)
        \/ StopCloseServer(i)
        \/ StopFinish(i)
        \/ ForceDisconnect(StopOwner(i))
    \/ LoopEnd

HostStep ==
    \/ GuiStop
    \/ GuiStopResult
    \/ GuiJoin

Next ==
    \/ \E c \in 1..MaxStopConns : ServeStep(c, MaxFrames, DefaultFps, ValidSize) \/ WatchdogStep(c)
    \/ MonitorStep(MaxChecks)
    \/ StopStep
    \/ HostStep

Spec == Init /\ [][Next]_vars

\* The connections alone: no stop() and no interface check happens.
ConnNext == \E c \in Conns : ServeStep(c, MaxPtsFrames, NegotiatedFps, ValidSize) \/ ContendStep(c)

SpecConn == Init /\ [][ConnNext]_vars

\* The monitor with the clients of the first connection.
NetNext ==
    \/ MonitorStep(MaxNetChecks)
    \/ ServeStep(1, MaxFrames, DefaultFps, ValidSize)
    \/ WatchdogStep(1)

SpecNet == InitNet /\ [][NetNext]_vars

\* ------------------------------------------------------------- properties
\* connections of port p whose handle_client has been entered and has not returned
Served(p) == {c \in Conns : port[c] = p /\ pc[c] \in Serving}

\* C1: on every listen port, in every reachable state, at most one
\* handle_client invocation has been entered and has not returned.
C1_PortExclusivity == \A p \in Phones : Cardinality(Served(p)) <= 1

\* the old connection of a port is in its finally block (running is False,
\* it awaits its watchdog or wait_closed) and a new one is being served
C1_Overlap ==
    \E a, b \in Conns :
        /\ a # b
        /\ port[a] = port[b]
        /\ pc[a] \in {"fin_wd", "fin_close"}
        /\ pc[b] \in {"cfg", "hdr"}

\* connections that passed the port check (patched_handle sent their True signal)
Accepted(p) == {c \in Conns : port[c] = p /\ pc[c] \in Serving \cup {"unlock", "done"}
                                          /\ sent[c] = ""}
\* the accepted connections whose wrapper has left handle_client
Ended(p) == {c \in Accepted(p) : pc[c] \in {"unlock", "done"}}

\* True, then frames, then False: a frame or a False follows a True or a
\* frame, a True follows nothing, a True or a False
InOrder(log) ==
    \A i \in 1..Len(log) :
        IF log[i] = "connected"
        THEN i = 1 \/ log[i - 1] \in {"connected", "disconnected"}
        ELSE i > 1 /\ log[i - 1] \in {"connected", "frame"}

\* C2: for every accepted connection the events of its stream come in the
\* order True, frames, False, and the False is sent exactly once whatever
\* ends the connection: a stream's log is in that order, every accepted
\* connection that has ended has got its False, and no more False were sent
\* than connections were accepted.
C2_EventOrder ==
    \A p \in Phones :
        /\ InOrder(events[p])
        /\ Cardinality(Ended(p)) <= Disconnects(events[p])
        /\ Disconnects(events[p]) <= Cardinality(Accepted(p))

\* the host has called stop(), the client of a served stream has closed
\* before the supervisor's notification, and its handler has returned
\* without any False: neither the handler (shutdown_in_progress) nor the
\* supervisor (the handler is gone from active_handlers) sends one
C2_NoDisconnect ==
    \E c \in Conns :
        /\ pc[c] = "done"
        /\ sent[c] = ""
        /\ port[c] \in served_at_stop
        /\ stop_pc[1] = "sleep"
        /\ Disconnects(events[port[c]]) = 0

\* C3: in a graceful stop() the supervisor sends False for each active
\* stream before it closes anything, and the handler's exit sends none, so
\* that the host gets exactly one False per active stream: once the
\* supervisor's notification has run (and before the stop() of start()'s
\* finally, a second run, has notified in its turn), every stream that was
\* being served when the host called stop() has got exactly one False since
\* that call.
C3_OneDisconnectPerStream ==
    (stop_pc[1] \notin {"idle", "notify"} /\ stop_pc[2] \in {"idle", "notify"}) =>
        \A p \in served_at_stop : Disconnects(events[p]) = mark[p] + 1

\* the server has stopped (server_stopped was sent) and a stream that was
\* being served when stop() was called never got a False
C3_NeverNotified ==
    /\ stopped_events = 1
    /\ \E p \in served_at_stop : Disconnects(events[p]) = mark[p]

\* C4: after stop() has returned no host event is sent (connection_changed,
\* frame_received, network_status_changed; error_occurred is sent by
\* nothing but a failed start), also when handlers had not finished by then.
C4_SilentAfterStop ==
    [][gui = "returned" => UNCHANGED << events, net_events >>]_vars

\* stop() has returned while a handler had not: the thread was terminated
C4_ReturnedOverHandler ==
    /\ gui = "returned"
    /\ loop = "terminated"
    /\ \E c \in Conns : pc[c] \in Serving

\* C5: once force_disconnect() has set a handler's _force_stop, nothing but
\* the terminating False is sent for its stream while the flag is set, also
\* not for a frame whose read was in progress.
C5_SilentAfterForceStop ==
    [][\A p \in Phones :
          force_stop[p] /\ force_stop'[p] =>
              \/ events'[p] = events[p]
              \/ events'[p] = Append(events[p], "disconnected")]_vars

\* a frame was shown for a stream whose handler is force-stopped
C5_FrameAfterForceStop ==
    \E p \in Phones :
        /\ force_stop[p]
        /\ Len(events[p]) >= 2
        /\ events[p][Len(events[p])] = "frame"
        /\ events[p][Len(events[p]) - 1] = "disconnected"

\* C6: a client that connects to a port whose slot holds a running handler
\* is sent exactly the rejection and closed, no event is sent for it, and
\* the handler of the port, its connection and its registration stay as
\* they are.
C6_Rejection ==
    [][\A c \in Conns :
          LET p == port[c] IN
          /\ (pc[c] = "accepted" /\ pc'[c] # "accepted"
                /\ p \in port_connections /\ running[p]) =>
                /\ sent[c] = ""
                /\ sent'[c] = "ERROR: Port already in use\n"
                /\ tr'[c] = "closing"
                /\ pc'[c] = "rejecting"
                /\ events' = events
                /\ running'[p] /\ force_stop'[p] = force_stop[p]
                /\ writer'[p] = writer[p] /\ watchdog_task'[p] = watchdog_task[p]
                /\ video_frame_pts'[p] = video_frame_pts[p]
                /\ current_fps'[p] = current_fps[p] /\ patches'[p] = patches[p]
                /\ port_connections' = port_connections
                /\ active_handlers' = active_handlers
                /\ \A a \in Conns \ {c} :
                      /\ pc'[a] = pc[a] /\ tr'[a] = tr[a] /\ wd'[a] = wd[a]
                      /\ frames_received'[a] = frames_received[a]
                      /\ pts_sent'[a] = pts_sent[a]
          /\ (pc[c] = "rejecting" /\ pc'[c] # "rejecting") =>
                /\ pc'[c] = "done"
                /\ sent'[c] = "ERROR: Port already in use\n"
                /\ events' = events]_vars

\* B was rejected and has gone while A is still streaming on the port
C6_Rejected ==
    \E a, b \in Conns :
        /\ port[a] = port[b]
        /\ pc[a] = "hdr" /\ running[port[a]] /\ writer[port[a]] = a
        /\ pc[b] = "done" /\ sent[b] = RejectMsg /\ tr[b] = "closed"

\* C7: the pts one connection passes to send_video_frame increase from
\* one published frame to the next by 90000 / current_fps, current_fps being
\* the fps the handshake negotiated: the frame sent after a frame that was
\* published carries that frame's pts plus 90000 / current_fps.
C7_PtsStep ==
    [][\A c \in Conns :
          LET n == Len(pts_sent[c]) IN
          (n >= 1 /\ Len(pts_sent'[c]) = n + 1 /\ pts_sent[c][n].ok) =>
              pts_sent'[c][n + 1].pts - pts_sent[c][n].pts
                  = 90000 \div current_fps[port[c]]]_vars

\* a connection negotiated 60 fps, published a frame with pts 0, and its
\* next frame carries pts 3000
C7_DefaultStep ==
    \E c \in Conns :
        /\ port[c] # 0
        /\ current_fps[port[c]] = 60
        /\ Len(pts_sent[c]) = 2
        /\ pts_sent[c][1].pts = 0 /\ pts_sent[c][1].ok
        /\ pts_sent[c][2].pts = 3000

\* C8: the first video frame every accepted connection publishes, the
\* second and later connections of a port included, carries pts 0.
C8_FirstPtsZero ==
    \A c \in Conns : Len(pts_sent[c]) >= 1 => pts_sent[c][1].pts = 0

\* the second connection of a port goes on where the first one stopped
C8_Continued ==
    \E a, b \in Conns :
        /\ a # b
        /\ port[a] = port[b]
        /\ pc[a] = "done"
        /\ Len(pts_sent[a]) = 1
        /\ pts_sent[a][1].pts = 0 /\ pts_sent[a][1].ok
        /\ Len(pts_sent[b]) >= 1
        /\ pts_sent[b][1].pts = 3000

\* What the claims C9 and C10 say the host is told, for the interface checks
\* seq: the status is up at first; the second of two consecutive checks that
\* miss the address while the status is up reports False, and a check that
\* finds the address while the status is down reports True.
RECURSIVE Reported(_, _, _)
Reported(seq, up, missed) ==
    IF seq = << >> THEN << >>
    ELSE IF ~Head(seq) /\ up /\ missed
         THEN << FALSE >> \o Reported(Tail(seq), FALSE, TRUE)
    ELSE IF Head(seq) /\ ~up
         THEN << TRUE >> \o Reported(Tail(seq), TRUE, FALSE)
    ELSE Reported(Tail(seq), up, ~Head(seq))

\* the checks at the end of seq that missed the address
RECURSIVE TrailingMisses(_)
TrailingMisses(seq) ==
    IF seq = << >> THEN 0
    ELSE IF seq[Len(seq)] THEN 0
    ELSE 1 + TrailingMisses(SubSeq(seq, 1, Len(seq) - 1))

\* C9: NetworkStatusChanged{false} is sent when, and only when, the bind
\* address is missing from two consecutive checks while the status is up; a
\* single miss followed by a check that finds the address sends nothing and
\* resets the failure count.
C9_DownThreshold ==
    /\ net_events = Reported(checks, TRUE, FALSE)
    /\ consecutive_failures = TrailingMisses(checks)

\* a single miss, a hit, then two misses: one False, after the fourth check
C9_SecondMiss ==
    /\ Len(checks) = 4
    /\ checks = << FALSE, TRUE, FALSE, FALSE >>
    /\ net_events = << FALSE >>
    /\ consecutive_failures = 2

\* C10: the network status events alternate False, True, False, ...,
\* beginning with False.
C10_Alternation ==
    \A i \in 1..Len(net_events) : net_events[i] = (i % 2 = 0)

\* down, up and down again
C10_DownUpDown == net_events = << FALSE, TRUE, FALSE >>

\* The monitor with the clients of every connection.
DownNext ==
    \/ MonitorStep(MaxChecks)
    \/ \E c \in Conns :
        \/ ServeStep(c, MaxFrames, DefaultFps, ValidSize)
        \/ ContendStep(c)
        \/ WatchdogStep(c)

SpecDown == Init /\ [][DownNext]_vars

\* C11: on a network-down transition force_disconnect() is called on every
\* handler active at that moment (and each such stream ends with its False
\* before the next True, the listeners staying open); stated here for its
\* first part: when the monitor reports the network down, the gather it
\* makes includes the handler of every connection that is in its handshake
\* or its streaming loop.
C11_AllActiveDisconnected ==
    [][net_events' = Append(net_events, FALSE) =>
          \A c \in Conns :
              pc[c] \in {"cfg", "hdr"} => port[c] \in fd'["monitor"].on]_vars

\* the network was reported down, the monitor is back in its sleep, and a
\* connection that was being served at that moment is still in its
\* streaming loop with its handler running and not force-stopped
C11_StillStreaming ==
    /\ net_events = << FALSE >>
    /\ monitor = "sleep"
    /\ \E c \in down_active :
          /\ pc[c] = "hdr" /\ tr[c] = "open"
          /\ running[port[c]] /\ ~force_stop[port[c]]

\* C12: with a loopback bind address the monitor never declares the network
\* down: it sends no NetworkStatusChanged{false} and force-disconnects no
\* handler, whatever the interface checks find.
C12_LoopbackNeverDown ==
    current_bind_ip = Loopback =>
        /\ \A i \in 1..Len(net_events) : net_events[i]
        /\ fd["monitor"] = NoTasks
        /\ monitor # "disconnecting"

\* bound to 127.0.0.1, the monitor has reported the network down after two
\* checks and force-disconnected a connected client
C12_LoopbackDown ==
    /\ current_bind_ip = Loopback
    /\ Len(checks) = max_failures
    /\ net_events = << FALSE >>
    /\ \E p \in Phones : force_stop[p]

\* The connections with every input of the protocol: the fps and the size
\* fields the clients choose.
ProtoNext ==
    \E c \in Conns :
        \/ ServeStep(c, MaxFrames, NegotiatedFps, HeaderSizes)
        \/ ContendStep(c)

SpecProto == Init /\ [][ProtoNext]_vars

\* C13: a header whose size is 0 or above 10_000_000 is fatal wherever a
\* header is read, the configuration handshake included: the connection is
\* closed and reads no further header.
C13_BadSizeFatal ==
    \A c \in Conns : bad_size[c] => pc[c] \notin {"cfg", "hdr"}

\* the handshake header had a size out of range and the connection has read
\* a frame since
C13_FrameAfterBadSize ==
    \E c \in Conns : bad_size[c] /\ frames_received[c] >= 1 /\ pc[c] = "hdr"

\* C14: a connection whose handshake did not arrive streams with the
\* defaults of its StreamConfig (stated for fps), also when an earlier
\* connection of the port negotiated other values: a connection that is
\* alone on its port, in the streaming loop, with config_received False has
\* current_fps equal to the default.
C14_DefaultsWithoutHandshake ==
    \A c \in Conns :
        (pc[c] = "hdr" /\ ~config_received[c] /\ Served(port[c]) = {c}) =>
            current_fps[port[c]] = config_fps

\* the first connection of a port negotiated 60 fps and has gone; the second
\* one got no handshake and streams with current_fps = 60
C14_StaleFps ==
    \E a, b \in Conns :
        /\ a # b /\ port[a] = port[b]
        /\ pc[a] = "done" /\ config_received[a]
        /\ pc[b] = "hdr" /\ ~config_received[b]
        /\ current_fps[port[b]] = 60

\* how many connection_changed(p, True, info) a log holds
Connects(log) == Cardinality({i \in 1..Len(log) : log[i] = "connected"})

\* C15: each accepted connection causes exactly one ConnectionChanged{true}:
\* a stream has been sent as many True as connections were accepted on its
\* port.
C15_OneConnectPerConnection ==
    \A p \in Phones : Connects(events[p]) = Cardinality(Accepted(p))

\* the only connection of a port completed its handshake and the host was
\* sent two True for it: the empty one of patched_handle and the one of
\* patched_config that carries the parameters
C15_TwoConnects ==
    \E c \in Conns :
        /\ Accepted(port[c]) = {c}
        /\ pc[c] = "hdr" /\ config_received[c]
        /\ events[port[c]] = << "connected", "connected" >>

\* The connections with every input of the video path: the fps and the
\* shape a handshake declares, the shape of the decoded pictures, and a
\* create_sender that may fail.
VideoInputs ==
    [rates |-> NegotiatedFps, sizes |-> ValidSize, declared |-> VideoShapes,
     pictures |-> VideoShapes, created |-> SenderMayFail, first |-> ConfigFirst,
     payloads |-> PlainJson, kinds |-> FrameKinds]

VideoNext ==
    \E c \in Conns :
        \/ ServeAny(c, MaxFrames, VideoInputs)
        \/ ContendStep(c)

SpecVideo == Init /\ [][VideoNext]_vars

\* the connection's handle_client calls output.reconfigure in this step
Reconfigures(c) == pc[c] = "cfg" /\ pc'[c] # "cfg" /\ config_received'[c]

\* the tuple the handler passes to reconfigure
Requested(p) == << current_width'[p], current_height'[p], current_fps'[p] >>

\* C16: reconfigure destroys and recreates the sender if and only if the
\* requested (width, height, fps) differs from the recorded tuple; with the
\* same tuple it returns True and leaves the sender and the frame counter as
\* they are; a failed recreate leaves the recorded tuple as it is.
C16_Reconfigure ==
    [][\A c \in Conns :
          Reconfigures(c) =>
              LET p == port[c]
                  same == Requested(p) = sender_config[p]
              IN
              /\ senders_created'[p] # senders_created[p] <=> ~same
              /\ same => /\ reconfigure_result'[c] = "True"
                         /\ sender_created'[p] = sender_created[p]
                         /\ video_frame_count'[p] = video_frame_count[p]
                         /\ sender_config'[p] = sender_config[p]
              /\ reconfigure_result'[c] = "False" =>
                     sender_config'[p] = sender_config[p]
              /\ reconfigure_result'[c] = "True" =>
                     sender_config'[p] = Requested(p)]_vars

\* the first connection of a port asked for 60 fps, for which the output
\* made a second sender, and published a frame; the second connection's
\* call asked for the recorded tuple and was answered True, the second
\* sender and the count of published frames being as the first left them
C16_SameTupleKept ==
    \E a, b \in Conns :
        /\ a # b /\ port[a] = port[b]
        /\ reconfigure_result[a] = "True" /\ reconfigure_result[b] = "True"
        /\ pc[a] = "done" /\ pc[b] = "hdr" /\ frames_received[b] = 0
        /\ sender_config[port[a]] = << 1280, 720, 60 >>
        /\ senders_created[port[a]] = 2
        /\ video_frame_count[port[a]] = 1

\* C17: every video frame passed to send_video_frame with the connection's
\* current width and height has an NV12 buffer of width * height * 3 / 2 bytes.
C17_Nv12Length ==
    \A c \in Conns :
        \A i \in 1..Len(pts_sent[c]) :
            pts_sent[c][i].len = (pts_sent[c][i].width * pts_sent[c][i].height * 3) \div 2

\* a connection that made no handshake had a 1280x720 picture passed to
\* send_video_frame as 1920x1080, the size an earlier connection of the
\* port had declared
C17_StaleShape ==
    \E a, b \in Conns :
        /\ a # b /\ port[a] = port[b]
        /\ pc[a] = "done" /\ config_received[a]
        /\ ~config_received[b]
        /\ Len(pts_sent[b]) = 1
        /\ pts_sent[b][1].ok
        /\ pts_sent[b][1].len = 1382400
        /\ pts_sent[b][1].width = 1920 /\ pts_sent[b][1].height = 1080

\* a client that sends its configuration and frames but never closes, with
\* the timeouts of the reads and the wake-ups of the watchdog
TimedInputs ==
    [rates |-> DefaultFps, sizes |-> ValidSize, declared |-> DefaultShape,
     pictures |-> DefaultShape, created |-> SenderCreated, first |-> ConfigFirst,
     payloads |-> PlainJson, kinds |-> FrameKinds]

TimedStep(c) ==
    \/ Arrive(c)
    \/ Handshake(c, TimedInputs)
    \/ \E kind \in FrameKinds, decoded, success \in BOOLEAN, shape \in DefaultShape :
           ReadFrame(c, MaxFrames, kind, decoded, success, shape)
    \/ ReadTimeout(c)
    \/ ReadEof(c)
    \/ Leave(c)
    \/ ConnectionWatchdog(c, Expired(port[c]))

\* One connection and the monitor as time passes.
TimedNext ==
    \/ Tick
    \/ MonitorStep(MaxChecks)
    \/ TimedStep(1)

SpecTimed == Init /\ [][TimedNext]_vars

\* C18: a connection that completed the handshake and receives no frames
\* stays open until the watchdog has seen 30 s without a frame: while the
\* server has not closed it, it leaves the streaming loop only when more
\* than connection_timeout has passed since last_frame_time.
C18_OpenUntilWatchdog ==
    [][\A c \in Conns :
          (/\ pc[c] = "hdr" /\ pc'[c] = "finally"
           /\ config_received[c] /\ frames_received'[c] = 0
           /\ tr[c] = "open" /\ ~force_stop[port[c]]
           /\ Served(port[c]) = {c})
          => Expired(port[c])]_vars

\* a connection completed its handshake, received nothing, and was closed
\* and reported disconnected 10 s after its last_frame_time, the watchdog
\* having been cancelled, while the network was never reported down
C18_ClosedAfterTenSeconds ==
    \E c \in Conns :
        /\ pc[c] = "done" /\ config_received[c] /\ frames_received[c] = 0
        /\ Accepted(port[c]) = {c}
        /\ since_last_frame[port[c]] * watchdog_sleep = header_timeout
        /\ wd[c] = "done" /\ tr[c] = "closed"
        /\ events[port[c]] = << "connected", "connected", "disconnected" >>
        /\ net_events = << >> /\ ~force_stop[port[c]]

\* a client of the StreamConfig's shape and fps that sends configuration
\* frames of other shapes and rates while it streams
StreamInputs ==
    [rates |-> DefaultFps, sizes |-> ValidSize, declared |-> DefaultShape,
     pictures |-> DefaultShape, created |-> SenderCreated, first |-> ConfigFirst,
     payloads |-> PlainJson, kinds |-> FrameKinds]

\* One connection of such a client.
StreamNext ==
    \/ ServeAny(1, MaxStreamFrames, StreamInputs)
    \/ \E fps \in NegotiatedFps, shape \in VideoShapes :
           ReadConfigFrame(1, MaxStreamFrames, fps, shape)

SpecStream == Init /\ [][StreamNext]_vars

\* C19: when a configuration frame arrives in the streaming loop the
\* handler adopts its width, height and fps, has the output reconfigured to
\* them, and steps the pts of the following video frames by 90000 / fps.
C19_AdoptsStreamConfig ==
    [][\A c \in Conns :
          LET p == port[c]
              new == stream_config'[c]
          IN
          (new # NoStreamConfig /\ Served(p)' = {c}) =>
              /\ current_width'[p] = new.width
              /\ current_height'[p] = new.height
              /\ current_fps'[p] = new.fps
              /\ sender_config'[p] = << new.width, new.height, new.fps >>
              /\ video_frame_pts'[p] # video_frame_pts[p] =>
                     video_frame_pts'[p] - video_frame_pts[p] = 90000 \div new.fps]_vars

\* the first frame of a 30 fps stream was a configuration frame for 60 fps;
\* the two video frames after it were published with pts 0 and 3000, the
\* handler and the output still being at 1280x720 and 30 fps with the
\* sender the output was made with
C19_ConfigFrameIgnored ==
    \E c \in Conns :
        /\ Accepted(port[c]) = {c}
        /\ config_received[c]
        /\ stream_config[c] = [width |-> 1280, height |-> 720, fps |-> 60, frame |-> 1]
        /\ frames_received[c] = 3
        /\ Len(pts_sent[c]) = 2
        /\ pts_sent[c][1].ok /\ pts_sent[c][1].pts = 0
        /\ pts_sent[c][2].ok /\ pts_sent[c][2].pts = 3000
        /\ current_fps[port[c]] = 30
        /\ sender_config[port[c]] = << 1280, 720, 30 >>
        /\ senders_created[port[c]] = 1

BindResults == {bound \in SUBSET Phones : bound # {}}

\* start() opening the listeners, then the connections of the clients
BindNext ==
    \/ \E bound \in BindResults : StartServer(bound)
    \/ \E c \in Conns :
        \/ ServeStep(c, MaxFrames, DefaultFps, ValidSize)
        \/ ContendStep(c)

SpecBind == InitBind /\ [][BindNext]_vars

\* C21: when the listener of a stream cannot bind, that stream has no
\* listener, the others are opened and served, and the host is sent an
\* error event: once start() is through its listeners, a stream without
\* listener means error_occurred was sent.
C21_BindErrorReported ==
    (monitor # "unstarted" /\ servers # Phones) => error_events >= 1

\* stream 1 could not bind and has no listener; a client of stream 2 was
\* accepted, made its handshake and streams; no error event was sent
C21_ServedWithoutError ==
    /\ monitor = "sleep"
    /\ servers = {2}
    /\ error_events = 0
    /\ \E c \in Conns :
          /\ port[c] = 2 /\ pc[c] = "hdr"
          /\ config_received[c] /\ frames_received[c] = 1

\* every input of the handshake of one client
ShakeInputs ==
    [rates |-> NegotiatedFps, sizes |-> HeaderSizes, declared |-> VideoShapes,
     pictures |-> DefaultShape, created |-> SenderMayFail, first |-> FirstTypes,
     payloads |-> JsonPayloads, kinds |-> FrameKinds]

\* One connection with every handshake a client can make.
ShakeNext == ServeAny(1, MaxFrames, ShakeInputs)

SpecShake == Init /\ [][ShakeNext]_vars

\* C22: a first frame that is not a configuration frame is fatal to the
\* connection: the handler does not enter the streaming loop and processes
\* no data frame.
C22_WrongFirstFrameFatal ==
    \A c \in Conns :
        first_frame[c] = "video" => pc[c] # "hdr" /\ frames_received[c] = 0

\* the first frame of a connection was not a configuration frame; the
\* handler went on and has read a frame of the stream, and the connection
\* is open
C22_StreamsAfterWrongFirst ==
    \E c \in Conns :
        /\ first_frame[c] = "video" /\ ~config_received[c]
        /\ pc[c] = "hdr" /\ tr[c] = "open"
        /\ frames_received[c] = 1

\* the bytes of a frame in the envelope of the streaming loop: the header
\* readexactly(17) takes, then the payload
EnvelopeBytes(size) == frame_header + SizeOf(size)

\* C23: the handshake frame has the 17-byte envelope of every frame: a
\* handshake that read a configuration with a payload of n bytes has
\* consumed 17 + n bytes of the stream.
C23_HandshakeEnvelope ==
    \A c \in Conns :
        config_received[c] =>
            config_bytes[c] \in {EnvelopeBytes(size) : size \in HeaderSizes}

\* a handshake with a payload of PayloadLen bytes succeeded having taken
\* 5 + PayloadLen bytes; the handler awaits the 17 bytes of the next header
C23_FiveByteHeader ==
    \E c \in Conns :
        /\ config_received[c] /\ first_frame[c] = "config"
        /\ config_bytes[c] = 5 + PayloadLen
        /\ pc[c] = "hdr" /\ frames_received[c] = 0

\* a client that sends video, audio and metadata frames and codec
\* configurations, with audio switched on or off in its handshake
AudioJson ==
    [present : {{"width", "height", "fps"}}, audio : {"true", "false"},
     battery : {<< >>}, bitrate : {"number"}]
AudioInputs ==
    [rates |-> DefaultFps, sizes |-> ValidSize, declared |-> DefaultShape,
     pictures |-> DefaultShape, created |-> SenderCreated, first |-> ConfigFirst,
     payloads |-> AudioJson, kinds |-> AudioKinds]

\* One connection of such a client, which may also send configuration
\* frames while it streams.
AudioNext ==
    \/ ServeAny(1, MaxStreamFrames, AudioInputs)
    \/ \E fps \in NegotiatedFps, shape \in VideoShapes :
           ReadConfigFrame(1, MaxStreamFrames, fps, shape)

SpecAudio == Init /\ [][AudioNext]_vars

\* connection c reads a frame in this step and no frame is published for it
Dropped(c) ==
    /\ frames_received'[c] = frames_received[c] + 1
    /\ video_frame_count' = video_frame_count
    /\ audio_frame_count' = audio_frame_count

\* C24: a packet the decoder gives no frame for and a publish that returns
\* False are not fatal: the handler goes back to the top of the streaming
\* loop with the transport, the flags and the registrations as they were,
\* and no disconnect, error or network event is emitted.
C24_DropIsNotFatal ==
    [][\A c \in Conns :
          Dropped(c) =>
              /\ pc'[c] = LoopTop(port[c])
              /\ tr' = tr /\ running' = running /\ force_stop' = force_stop
              /\ port_connections' = port_connections
              /\ active_handlers' = active_handlers
              /\ Disconnects(events'[port[c]]) = Disconnects(events[port[c]])
              /\ error_events' = error_events /\ net_events' = net_events]_vars

\* a video publish failed, then an audio publish failed, and the third
\* frame of the connection was published
C24_StreamsAfterDrops ==
    \E c \in Conns :
        /\ pc[c] = "hdr" /\ tr[c] = "open" /\ frames_received[c] = 3
        /\ Len(pts_sent[c]) = 2
        /\ ~pts_sent[c][1].ok /\ pts_sent[c][2].ok
        /\ audio_sent[c] = 1 /\ audio_frame_count[port[c]] = 0

\* a client that negotiates 30 or 60 fps while the host changes the quality
QualityInputs ==
    [rates |-> NegotiatedFps, sizes |-> ValidSize, declared |-> DefaultShape,
     pictures |-> DefaultShape, created |-> SenderCreated, first |-> ConfigFirst,
     payloads |-> PlainJson, kinds |-> FrameKinds]

QualityNext ==
    \/ ServeAny(1, MaxFrames, QualityInputs)
    \/ \E level \in QualityLevels : UpdateQuality(level)

SpecQuality == Init /\ [][QualityNext]_vars

\* C25: after update_quality(level) every native publisher publishes with
\* that level, the publishers a later reconfigure recreates included.
C25_QualityApplied ==
    (quality_level # << >> /\ outputs_alive) =>
        \A p \in Phones : sender_created[p] => sender_quality[p] = quality_level[1]

\* the host asked for high quality; the handshake of a later connection had
\* the sender recreated, which publishes with medium quality
C25_RecreatedWithMedium ==
    \E c \in Conns :
        /\ quality_level = << High >>
        /\ pc[c] = "hdr" /\ tr[c] = "open"
        /\ reconfigure_result[c] = "True" /\ senders_created[port[c]] = 2
        /\ sender_created[port[c]] /\ sender_quality[port[c]] = Medium

\* C26: a configuration frame read in the streaming loop is ignored: the
\* negotiated width, height and fps, the audio state, the telemetry, the
\* pts and the publisher are as before, and the handler goes back to the
\* top of the loop with the connection as it was.
C26_ConfigFrameIgnored ==
    [][\A c \in Conns :
          stream_config'[c] # stream_config[c] =>
              /\ current_width' = current_width
              /\ current_height' = current_height
              /\ current_fps' = current_fps
              /\ audio_enabled' = audio_enabled
              /\ battery_percent' = battery_percent
              /\ video_frame_pts' = video_frame_pts
              /\ pts_sent' = pts_sent /\ audio_sent' = audio_sent
              /\ sender_config' = sender_config
              /\ sender_created' = sender_created
              /\ senders_created' = senders_created
              /\ sender_quality' = sender_quality
              /\ pc'[c] = LoopTop(port[c])
              /\ tr' = tr /\ events' = events]_vars

\* with audio on, a battery level reported and a video frame published, the
\* third frame of the connection was a configuration of another shape and
\* rate; the handler streams on with the values of the handshake
C26_StreamsOnUnchanged ==
    \E c \in Conns :
        /\ pc[c] = "hdr" /\ tr[c] = "open"
        /\ stream_config[c] = [width |-> 1920, height |-> 1080, fps |-> 60, frame |-> 3]
        /\ current_width[port[c]] = config_width
        /\ current_height[port[c]] = config_height
        /\ current_fps[port[c]] = config_fps
        /\ audio_enabled[port[c]] /\ battery_percent[port[c]] = 80
        /\ video_frame_pts[port[c]] = pts_increment
        /\ sender_config[port[c]] = << config_width, config_height, config_fps >>

\* StreamConfig's value for each key of the configuration JSON
Defaults ==
    [width |-> config_width, height |-> config_height, fps |-> config_fps,
     audio |-> config_audio_enabled]

\* C27: when a handshake was parsed and the handler is about to read the
\* first frame of the stream, each of width, height, fps and audio.enabled
\* that the payload did not hold has the value of the StreamConfig.
C27_AbsentFieldsDefault ==
    \A c \in Conns :
        (last_json[c] # << >> /\ pc[c] = "hdr" /\ frames_received[c] = 0) =>
            LET json == last_json[c][1]
                p == port[c]
            IN
            /\ "width" \notin json.present => current_width[p] = Defaults.width
            /\ "height" \notin json.present => current_height[p] = Defaults.height
            /\ "fps" \notin json.present => current_fps[p] = Defaults.fps
            /\ json.audio = "absent" => audio_enabled[p] = Defaults.audio

\* the handshake of a connection held height and fps only, and no audio
\* object: width took the StreamConfig's 1280, audio was switched on, and
\* the handler streams
C27_AudioOnByDefault ==
    \E c \in Conns :
        /\ pc[c] = "hdr" /\ config_received[c] /\ frames_received[c] = 0
        /\ last_json[c] # << >>
        /\ last_json[c][1].present = {"height", "fps"}
        /\ last_json[c][1].audio = "absent"
        /\ current_width[port[c]] = config_width
        /\ audio_enabled[port[c]] /\ ~config_audio_enabled

\* C28: when the output's reconfigure failed after a parsed handshake, the
\* handler streams with the StreamConfig's width, height and fps as its
\* current values, the tuple the output has recorded.
C28_DefaultsAfterFailure ==
    \A c \in Conns :
        (reconfigure_result[c] = "False" /\ pc[c] = "hdr") =>
            /\ current_width[port[c]] = config_width
            /\ current_height[port[c]] = config_height
            /\ current_fps[port[c]] = config_fps
            /\ sender_config[port[c]] =
                   << current_width[port[c]], current_height[port[c]],
                      current_fps[port[c]] >>

\* the handshake declared 1280x720 at 60 fps and create_sender failed: the
\* handler has read a frame with 60 fps as its current rate, the output
\* records 30 fps and has no sender
C28_NegotiatedKept ==
    \E c \in Conns :
        /\ reconfigure_result[c] = "False" /\ config_received[c]
        /\ pc[c] = "hdr" /\ tr[c] = "open" /\ frames_received[c] = 1
        /\ current_width[port[c]] = config_width
        /\ current_height[port[c]] = config_height
        /\ current_fps[port[c]] = 60
        /\ sender_config[port[c]] = << config_width, config_height, config_fps >>
        /\ ~sender_created[port[c]]

\* C29: a video or audio frame with the codec-config flag causes no
\* send_video_frame or send_audio_frame call, changes neither the pts nor
\* the counters of published frames and sends no preview frame to the host.
C29_CodecConfigNotPublished ==
    [][\A c \in Conns :
          codec_configs'[c] # codec_configs[c] =>
              /\ pts_sent' = pts_sent /\ audio_sent' = audio_sent
              /\ video_frame_pts' = video_frame_pts
              /\ video_frame_count' = video_frame_count
              /\ audio_frame_count' = audio_frame_count
              /\ events' = events]_vars

\* after a published video frame the connection, with audio on, read a
\* video and an audio codec configuration, the latter fed to the audio
\* decoder: one send_video_frame call, one step of the pts, one preview
\* frame after the two connection signals, no audio sent
C29_ConfigsOnlyDecoded ==
    \E c \in Conns :
        /\ pc[c] = "hdr" /\ frames_received[c] = 3 /\ codec_configs[c] = 2
        /\ audio_enabled[port[c]] /\ audio_decodes[c] = 1
        /\ Len(pts_sent[c]) = 1 /\ pts_sent[c][1].ok
        /\ video_frame_pts[port[c]] = pts_increment
        /\ video_frame_count[port[c]] = 1
        /\ audio_sent[c] = 0 /\ audio_frame_count[port[c]] = 0
        /\ events[port[c]] = << "connected", "connected", "frame" >>

\* C30: while audio_enabled is false a frame read by the handler is
\* neither fed to the audio decoder nor published as audio; while it is
\* true an audio payload without the codec-config flag leads to one
\* send_audio_frame call if the decoder gave a frame and to none otherwise.
C30_AudioGate ==
    [][\A c \in Conns :
          frames_received'[c] # frames_received[c] =>
              /\ ~audio_enabled[port[c]] =>
                     /\ audio_decodes' = audio_decodes
                     /\ audio_sent' = audio_sent
                     /\ audio_frame_count' = audio_frame_count
              /\ audio_sent'[c] - audio_sent[c] \in {0, 1}
              /\ audio_payloads'[c] # audio_payloads[c] =>
                     audio_sent'[c] - audio_sent[c] = audio_yields'[c] - audio_yields[c]
              /\ audio_payloads'[c] = audio_payloads[c] => audio_sent' = audio_sent]_vars

\* with audio on the connection read three audio payloads: the decoder
\* gave a frame for two of them, each sent once, and one publish failed
C30_OneSendPerFrame ==
    \E c \in Conns :
        /\ pc[c] = "hdr" /\ audio_enabled[port[c]]
        /\ frames_received[c] = 3 /\ audio_payloads[c] = 3
        /\ audio_decodes[c] = 3 /\ audio_yields[c] = 2
        /\ audio_sent[c] = 2 /\ audio_frame_count[port[c]] = 1

\* C31: connection_lock is held for the check and insert of the accept path
\* and for the removal at handler exit only: no wrapper holds it while it
\* awaits the drain or the close of a transport, and no wrapper has to wait
\* for it when its handler has returned.
C31_LockHeldBriefly ==
    \A c \in Conns :
        /\ connection_lock = c => pc[c] # "rejecting"
        /\ pc[c] # "unlock"

\* the wrapper of a rejected client holds the lock while it awaits
\* wait_closed(); the handler of the first client has returned and its
\* wrapper waits for the lock, the slot of the port still taken
C31_ReleaseWaits ==
    \E a, b \in Conns :
        /\ a # b
        /\ connection_lock = b /\ pc[b] = "rejecting"
        /\ tr[b] = "closing" /\ sent[b] = RejectMsg
        /\ pc[a] = "unlock" /\ port[a] \in port_connections
        /\ ~running[port[a]]

\* the steps of connection c that the loop takes by itself: the wrapper and
\* the handler run when they are ready, a read returns (with data, with end
\* of file or by its timeout), a closed transport is lost, a cancelled or
\* stopped watchdog ends
Progress(c) ==
    \/ WrapperStart(c)
    \/ ConnectionLost(c)
    \/ Handshake(c, [rates |-> DefaultFps, sizes |-> ValidSize,
                     declared |-> DefaultShape, pictures |-> DefaultShape,
                     created |-> SenderCreated, first |-> ConfigFirst,
                     payloads |-> PlainJson, kinds |-> FrameKinds])
    \/ \E size \in ValidSize : ReadFail(c, size)
    \/ Leave(c)
    \/ ContendStep(c)
    \/ WatchdogStep(c)

\* The monitor and clients that connect, hand over their configuration and
\* send no frame; every task that is ready is run.
LiveNext ==
    \/ MonitorStep(MaxChecks)
    \/ \E c \in Conns :
        \/ \E p \in Phones : Connect(c, p)
        \/ Progress(c)

SpecLive ==
    /\ Init
    /\ [][LiveNext]_vars
    /\ \A c \in Conns : WF_vars(Progress(c))
    /\ WF_vars(ForceDisconnect("monitor"))

ResolveNext ==
    \/ ResolveBind
    \/ \E bound \in BindResults : StartServer(bound)

SpecResolve == InitResolve /\ [][ResolveNext]_vars

\* the three classes of patterns in the order of their priority
PatternClasses ==
    << {priority_patterns[1]},
       {priority_patterns[2], priority_patterns[3]},
       {priority_patterns[4], priority_patterns[5]} >>

\* the class of the entry at position i (4 without a match) and the rank of
\* the first pattern it contains (6 without a match)
ClassOf(list, i) ==
    LET hit == {k \in 1..3 : \E pat \in PatternClasses[k] : Contains(pat, list[i].interface)}
    IN IF hit = {} THEN 4 ELSE CHOOSE k \in hit : \A m \in hit : k <= m
RankOf(list, i) ==
    LET hit == {k \in 1..5 : Contains(priority_patterns[k], list[i].interface)}
    IN IF hit = {} THEN 6 ELSE CHOOSE k \in hit : \A m \in hit : k <= m

\* entry i of the list is the first one of the best value of Key
FirstBest(list, i, Key(_, _)) ==
    \A j \in 1..Len(list) :
        /\ Key(list, i) <= Key(list, j)
        /\ j < i => Key(list, i) < Key(list, j)

\* the resolved address is the user's, or that of the entry that is first
\* among the best by Key, or 0.0.0.0 without a non-loopback address
Resolved(Key(_, _)) ==
    LET list == get_local_ip_addresses(interfaces) IN
    current_bind_ip # "" =>
        IF bind_ip # "" THEN current_bind_ip = bind_ip
        ELSE IF list = << >> THEN current_bind_ip = "0.0.0.0"
        ELSE \E i \in 1..Len(list) :
                 FirstBest(list, i, Key) /\ current_bind_ip = list[i].ip

\* C33 as stated: the address is the user's, else that of the first
\* interface of the best class (ethernet, then wi-fi or wlan, then eth or
\* en), else of the first non-loopback interface, else 0.0.0.0.
C33_ClassOrder == Resolved(ClassOf)

\* C33: the address is the user's, else that of the first interface
\* containing the first of ethernet, wi-fi, wlan, eth, en that any
\* interface contains, else of the first non-loopback interface, else
\* 0.0.0.0.
C33_PatternOrder == Resolved(RankOf)

\* wlan0 is listed before Wi-Fi and no address was specified: the server
\* is bound to the address of Wi-Fi, the second interface
C33_WiFiBeforeWlan ==
    /\ bind_ip = "" /\ Len(interfaces) = 2
    /\ interfaces[1].interface = wlan0 /\ interfaces[2].interface = WiFi
    /\ current_bind_ip = interfaces[2].ip
    /\ monitor = "sleep"

\* The handler of the first port reads audio codec configurations and puts
\* the ADTS header before audio payloads.
AdtsNext ==
    \/ \E data0 \in ConfigByte0, data1 \in ConfigByte1 : AudioCodecConfig(1, data0, data1)
    \/ \E length \in PayloadLengths : AddAdtsHeader(1, length)

SpecAdts == Init /\ [][AdtsNext]_vars

\* the fields an ADTS parser reads from a header: the sampling frequency
\* index (bits 2..5 of byte 2), the channel configuration (bit 0 of byte 2,
\* bits 6..7 of byte 3) and the frame length (13 bits over bytes 3..5)
HeaderSampleRateIndex(h) == (h[3] \div 4) % 16
HeaderChannelConfig(h) == (h[3] % 2) * 4 + h[4] \div 64
HeaderFrameLength(h) == (h[4] % 4) * 2048 + h[5] * 8 + h[6] \div 32

\* C34: add_adts_header gives a header of 7 bytes followed by the payload,
\* and the header's sample-rate index, channel configuration and frame
\* length are the recorded index, the recorded channel configuration and the
\* payload length plus 7.
C34_AdtsFields ==
    \A p \in Phones :
        adts_frame[p] # << >> =>
            LET h == adts_frame[p][1].header IN
            /\ Len(h) = 7
            /\ HeaderSampleRateIndex(h) = adts_frame[p][1].sample_rate_index
            /\ HeaderChannelConfig(h) = adts_frame[p][1].channel_config
            /\ HeaderFrameLength(h) = adts_frame[p][1].payload + 7

\* a codec configuration with channel configuration 8 was recorded; the
\* header of a payload of 255 bytes has the private bit set and channel
\* configuration 0
C34_ChannelConfigLost ==
    /\ aac_channel_config[1] = 8 /\ aac_sample_rate_index[1] = 3
    /\ adts_frame[1] # << >>
    /\ adts_frame[1][1].payload = 255 /\ adts_frame[1][1].channel_config = 8
    /\ adts_frame[1][1].header = << 255, 241, 78, 0, 32, 223, 252 >>

\* C35: every connection being served is registered with the supervisor:
\* while a handle_client invocation for a port has not returned, the port
\* has its slot in port_connections and its stream its entry in
\* active_handlers, so that a network-down transition and stop() reach it.
C35_ServedIsRegistered ==
    \A c \in Conns :
        pc[c] \in Serving =>
            /\ port[c] \in port_connections
            /\ InSeq(active_handlers, port[c])

\* a connection is in its streaming loop, its transport open and its handler
\* running, after the wrapper of an earlier connection of the port has
\* unregistered the handler they share
C35_ServedUnregistered ==
    \E a, b \in Conns :
        /\ a # b
        /\ port[a] = port[b]
        /\ pc[a] = "done" /\ sent[a] = ""
        /\ pc[b] = "hdr" /\ tr[b] = "open"
        /\ running[port[b]]
        /\ port[b] \notin port_connections
        /\ ~InSeq(active_handlers, port[b])

\* positions of a connection on its exit path: the finally blocks of
\* handle_client, patched_handle and client_handler_wrapper
ExitPath == {"finally", "fin_wd", "close", "fin_close", "finish", "unlock"}

\* connection a takes a step of its exit path while b, which entered
\* handle_client on the same port after a (the handler's watchdog task is
\* b's), is in its handshake or its streaming loop
ExitsBeside(a, b) ==
    /\ a # b
    /\ port[a] = port[b]
    /\ pc[a] \in ExitPath /\ pc'[a] # pc[a]
    /\ pc[b] \in {"cfg", "hdr"} /\ pc'[b] = pc[b]
    /\ watchdog_task[port[b]] = b

\* C36: the exit path of one connection never changes the state of a
\* different, later connection on the same port: a step of it leaves the
\* handler's running and force-stop flags, the later connection's watchdog
\* task, the handler's writer reference and the slot of the port as they were.
C36_ExitIsLocal ==
    [][\A a, b \in Conns :
          ExitsBeside(a, b) =>
              LET p == port[b] IN
              /\ running'[p] = running[p]
              /\ force_stop'[p] = force_stop[p]
              /\ wd'[b] = wd[b]
              /\ watchdog_task'[p] = watchdog_task[p]
              /\ writer'[p] = writer[p]
              /\ (p \in port_connections => p \in port_connections')]_vars

\* the earlier connection has finished its exit path; the later one is still
\* in its streaming loop with its transport open, and the handler has lost
\* its writer reference and the port its slot
C36_LaterLostItsSlot ==
    \E a, b \in Conns :
        /\ a # b
        /\ port[a] = port[b]
        /\ pc[a] = "done" /\ sent[a] = ""
        /\ pc[b] = "hdr" /\ tr[b] = "open" /\ wd[b] = "alive"
        /\ watchdog_task[port[b]] = b
        /\ running[port[b]]
        /\ writer[port[b]] = NoConn
        /\ port[b] \notin port_connections

\* stop() and the host beside the connections of a client that sends audio.
DestroyNext ==
    \/ ServeAny(1, MaxFrames, AudioInputs)
    \/ WatchdogStep(1)
    \/ StopStep
    \/ HostStep

SpecDestroy == Init /\ [][DestroyNext]_vars

\* C37: after stop() has called destroy() on the publishers, no send_video
\* or send_audio call passes the destroyed (None) sender handle to the native
\* library, whatever a handler that has not left its loop yet still processes.
C37_NoSendOnDestroyed ==
    \A call \in null_sends : call[2] # "destroyed"

\* stop() has destroyed the senders and the handler of a connection that was
\* accepted while stop() ran (no force_disconnect reached it: its transport
\* is open) has then given an audio frame to omt_send with the None handle
C37_AudioOnDestroyed ==
    /\ ~outputs_alive
    /\ << "audio", "destroyed" >> \in null_sends
    /\ tr[1] = "open" /\ ~force_stop[port[1]]
    /\ audio_sent[1] > 0
    /\ pc[1] = "finally"

\* C38: receive_config is all-or-nothing: whenever it returns False (a
\* timeout, another frame type, a payload that does not parse, or an error
\* raised after the fields were parsed) the handler's width, height, fps,
\* audio switch and device telemetry are what they were before the call, so
\* that they never differ from what the publisher was configured with.
C38_ConfigAllOrNothing ==
    [][\A c \in Conns :
          (pc[c] = "cfg" /\ pc'[c] # "cfg" /\ ~config_received'[c]) =>
              LET p == port[c] IN
              /\ current_width'[p] = current_width[p]
              /\ current_height'[p] = current_height[p]
              /\ current_fps'[p] = current_fps[p]
              /\ audio_enabled'[p] = audio_enabled[p]
              /\ battery_percent'[p] = battery_percent[p]]_vars

\* the handshake declared 1920x1080 with its bitrate as a string:
\* receive_config returned False after it had assigned the fields, no
\* reconfigure was called, and the handler streams with 1920x1080 beside a
\* publisher configured for the StreamConfig's 1280x720
C38_FieldsKeptAfterError ==
    \E c \in Conns :
        /\ pc[c] = "hdr" /\ tr[c] = "open" /\ frames_received[c] = 1
        /\ ~config_received[c] /\ reconfigure_result[c] = "none"
        /\ last_json[c] # << >>
        /\ last_json[c][1].bitrate = "text"
        /\ current_width[port[c]] = 1920 /\ current_height[port[c]] = 1080
        /\ sender_config[port[c]] = << config_width, config_height, config_fps >>

\* a step of the second run of stop(), the one start()'s finally makes
SecondRunStep == stop_pc[2] # "idle" /\ stop_pc'[2] # stop_pc[2]

\* C39: stop() is safe under re-entry: when it runs a second time, from
\* start()'s finally after a host-initiated stop closed the listeners, the
\* second run sends no further ConnectionChanged{false} for any stream and
\* destroys no native sender that is destroyed already.
C39_ReentrySafe ==
    [][SecondRunStep =>
          /\ events' = events
          /\ \A p \in Phones :
                 sender_handle[p] = "destroyed" => sender_handle'[p] = "destroyed"]_vars

\* the second run has sent its notifications while the first is still
\* closing the listeners: a stream that was being served when the host
\* called stop() has got two False since that call
C39_TwoDisconnects ==
    \E p \in served_at_stop :
        /\ stop_pc[1] \in {"close", "sleep"}
        /\ stop_pc[2] \notin {"idle", "notify"}
        /\ Disconnects(events[p]) = mark[p] + 2

\* the log of a stream holds a False after position i
FalseAfter(log, i) == \E j \in (i + 1)..Len(log) : log[j] = "disconnected"

\* C40: a connection accepted while stop() is in progress, after the
\* supervisor's disconnect notifications and before its listener is closed,
\* either produces no host event at all or its ConnectionChanged{true} is
\* eventually followed by a ConnectionChanged{false} for its stream; stated
\* for the end of the run: once the host's stop() has returned (nothing is
\* sent after that), the True of every such connection has a False after it.
C40_LateTrueGetsFalse ==
    \A c \in Conns :
        (gui = "returned" /\ accepted_in_stop[c] /\ true_at[c] > 0) =>
            FalseAfter(events[port[c]], true_at[c])

\* the host's stop() has returned and the server thread has finished; the
\* stream of a connection accepted during stop() ends with that connection's
\* True
C40_TrueNeverClosed ==
    \E c \in Conns :
        /\ gui = "returned" /\ loop = "finished" /\ stopped_events = 1
        /\ accepted_in_stop[c] /\ true_at[c] > 0
        /\ true_at[c] = Len(events[port[c]])
        /\ events[port[c]][true_at[c]] = "connected"

====
